---- MODULE Spec2Model ----
(***************************************************************************)
(* A model of SmlSchema-TS: the schema model (SmlSchema, SsDefinitions,    *)
(* SsDefinitionList, SsStructDef, SsAttributeDataType, SsAttributeDef,     *)
(* SsElementDef, SsUnorderedContent), the schema serializer and loader,    *)
(* and the name allocator of the code generator (TsLookup).                *)
(*                                                                         *)
(* Objects live in heaps (sequences); an object's identity is its index,   *)
(* 0 is null.  A scope is 0 (the schema's SsDefinitions) or the index of   *)
(* the SsElementDef that owns the nested SsDefinitions.                    *)
(***************************************************************************)
EXTENDS Integers, Sequences, FiniteSets, TLC

VARIABLES
    schema,     \* the SmlSchema under construction and every object made for it
    last,       \* the most recent call of the model API and how it ended
    document,   \* the SmlDocument produced by serialize(), <<>> before
    loaded,     \* the outcome of the loader on that document, <<>> before
    typeLookup, \* the TsLookup of a code generator
    allocated,  \* history of typeLookup: what generateName has returned so far
    codeGen,    \* the other fields of the SmlSchemaCodeGen, and what its
                \* generate() calls returned
    stringBuilder  \* an IndentedStringBuilder a caller writes to

vars == <<schema, last, document, loaded, typeLookup, allocated, codeGen, stringBuilder>>

\* ------------------------------------------------------------------ bounds

\* Objects (definitions, struct values, data types, contents, content
\* entries) the model API may create in one behaviour of a specification;
\* MaxTripEntries is the number there may be once a content entry is added.
MaxDefs == 3
MaxTypeObjects == 3
MaxSlotObjects == 4
MaxTripObjects == 3
MaxTripEntries == 4

\* The objects of a schema whose data type texts are written and read.
MaxTextObjects == 3

\* The objects of a schema code is generated for, and the generate() calls.
MaxGenObjects == 4
MaxGenerations == 3

\* Objects of a schema whose structs are generated: an enum, a struct and
\* its values.
MaxStructObjects == 4

\* Objects of a schema whose element fields are generated: an attribute, its
\* data type, an element, its content and two entries.
MaxFieldObjects == 6

\* Enums and elements of a schema whose enums are made with any labels.
MaxEnumObjects == 3

\* Objects of a schema whose mutators are called until they fail.
MaxMutObjects == 4

\* The lines a caller writes to an IndentedStringBuilder.
MaxLines == 6

\* The largest number given to SsRange.fixed and to new SsRange.
MaxSize == 9

\* Names given to definitions, struct values and content entries.
Names == {"A", "B"}

\* ------------------------------------------------------------- null values

\* null of a number | null field (SsRange.min, SsRange.max); the numbers of
\* the model are all greater
null == -1000

\* null of an SsPredefinedType | null field
NoPredefinedType == "null"

\* undefined, where an object reference is expected (values[0] of no values)
undefined == -2

\* ------------------------------------------------------------------ strings

\* NaN, the number parseInt gives for a text that does not start with digits
NaN == -1001

\* a < b of two numbers: never true of NaN
LessThan(a, b) == a # NaN /\ b # NaN /\ a < b

\* a === b of two number | null values: never true of NaN
StrictEquals(a, b) == a # NaN /\ a = b

LowerCaseLetters == "abcdefghijklmnopqrstuvwxyz"
UpperCaseLetters == "ABCDEFGHIJKLMNOPQRSTUVWXYZ"

\* The letter at the place c has in from, taken out of to; c when it has none.
MapLetter(c, from, to) ==
    IF \E i \in 1 .. Len(from) : SubSeq(from, i, i) = c
    THEN LET i == CHOOSE i \in 1 .. Len(from) : SubSeq(from, i, i) = c
         IN  SubSeq(to, i, i)
    ELSE c

\* String.toUpperCase / toLowerCase of a string of at most one character
ToUpperCase(c) == MapLetter(c, LowerCaseLetters, UpperCaseLetters)
ToLowerCase(c) == MapLetter(c, UpperCaseLetters, LowerCaseLetters)

\* str.endsWith(suffix)
EndsWith(str, suffix) ==
    /\ Len(str) >= Len(suffix)
    /\ SubSeq(str, Len(str) - Len(suffix) + 1, Len(str)) = suffix

\* str.indexOf(part): counted from 0, -1 when str does not hold part
IndexOf(str, part) ==
    LET at == {i \in 1 .. Len(str) - Len(part) + 1 :
                  SubSeq(str, i, i + Len(part) - 1) = part}
    IN  IF at = {} THEN -1 ELSE (CHOOSE i \in at : \A j \in at : i <= j) - 1

\* str.includes(part)
Includes(str, part) == IndexOf(str, part) >= 0

\* str.substring(start, end) for 0 <= start <= end <= str.length
Substring(str, start, end) == SubSeq(str, start + 1, end)

\* str.split(separator, 2): at most the first two parts
Split2(str, separator) ==
    LET i == IndexOf(str, separator)
    IN  IF i < 0 THEN <<str>>
        ELSE LET rest == Substring(str, i + Len(separator), Len(str))
                 j    == IndexOf(rest, separator)
             IN  <<Substring(str, 0, i),
                   IF j < 0 THEN rest ELSE Substring(rest, 0, j)>>

\* str.toLowerCase() / str.toUpperCase()
RECURSIVE StringToLowerCase(_)
StringToLowerCase(str) ==
    IF Len(str) = 0 THEN ""
    ELSE ToLowerCase(SubSeq(str, 1, 1)) \o StringToLowerCase(SubSeq(str, 2, Len(str)))

RECURSIVE StringToUpperCase(_)
StringToUpperCase(str) ==
    IF Len(str) = 0 THEN ""
    ELSE ToUpperCase(SubSeq(str, 1, 1)) \o StringToUpperCase(SubSeq(str, 2, Len(str)))

\* The value of the decimal digits str starts with at position i, after acc;
\* NaN when there is none and none came before.
RECURSIVE DigitsValue(_, _, _)
DigitsValue(str, i, acc) ==
    LET d == IF i > Len(str) THEN -1 ELSE IndexOf("0123456789", SubSeq(str, i, i))
    IN  IF d < 0 THEN acc
        ELSE DigitsValue(str, i + 1, (IF acc = NaN THEN 0 ELSE acc * 10) + d)

\* Number.parseInt(str) of a text without leading white space
ParseInt(str) ==
    LET sign  == IF Len(str) = 0 THEN "" ELSE SubSeq(str, 1, 1)
        value == DigitsValue(str, IF sign \in {"-", "+"} THEN 2 ELSE 1, NaN)
    IN  IF value = NaN THEN NaN ELSE IF sign = "-" THEN 0 - value ELSE value

\* "" + n of a number | null
NumberToString(n) ==
    IF n = null THEN "null" ELSE IF n = NaN THEN "NaN" ELSE ToString(n)

\* ---------------------------------------------------------------- SmlSchema

Kinds == {"valueTypeDefs", "structDefs", "attributeDefs", "elementDefs"}

\* The four local maps of one SsDefinitions, each in insertion order.
EmptyDefinitions ==
    [valueTypeDefs |-> <<>>, structDefs |-> <<>>,
     attributeDefs |-> <<>>, elementDefs |-> <<>>]

\* new SmlSchema(): definitions[scope + 1] holds the maps of a scope.
NewSmlSchema ==
    [definitions   |-> <<EmptyDefinitions>>,
     valueTypeDefs |-> <<>>,
     structDefs    |-> <<>>,
     attributeDefs |-> <<>>,
     elementDefs   |-> <<>>,
     contents      |-> <<>>,
     dataTypes     |-> <<>>,
     rootElement   |-> 0]

Scopes(S) == 0 .. Len(S.elementDefs)

\* parentDefinitions of a scope; the schema's scope has none.
ParentOf(S, scope) == S.elementDefs[scope].parent

\* The heap that holds the objects of a namespace.
Heap(S, kind) ==
    CASE kind = "valueTypeDefs" -> S.valueTypeDefs
      [] kind = "structDefs"    -> S.structDefs
      [] kind = "attributeDefs" -> S.attributeDefs
      [] kind = "elementDefs"   -> S.elementDefs

\* SsDefinitionList.map of one namespace of one scope, and .values
Map(S, kind, scope) == S.definitions[scope + 1][kind]

MapHas(S, kind, scope, name) ==
    \E i \in DOMAIN Map(S, kind, scope) :
        Heap(S, kind)[Map(S, kind, scope)[i]].name = name

MapGet(S, kind, scope, name) ==
    LET m == Map(S, kind, scope)
    IN  m[CHOOSE i \in DOMAIN m : Heap(S, kind)[m[i]].name = name]

\* What a call gives back: the schema after it, "" or the error it raised,
\* and the object it returned (0: none).
Ok(S, ret)   == [s |-> S, err |-> "", ret |-> ret]
Raise(S, err) == [s |-> S, err |-> err, ret |-> 0]

\* -------------------------------------------------------- SsDefinitionList

RECURSIVE SsDefinitionList_has(_, _, _, _)
SsDefinitionList_has(S, kind, scope, name) ==
    IF MapHas(S, kind, scope, name) THEN TRUE
    ELSE IF scope = 0 THEN FALSE
    ELSE SsDefinitionList_has(S, kind, ParentOf(S, scope), name)

\* A lookup that asks the parent list before the local map.
RECURSIVE GetOrNullParentFirst(_, _, _, _)
GetOrNullParentFirst(S, kind, scope, name) ==
    LET up == IF scope = 0 THEN 0
              ELSE GetOrNullParentFirst(S, kind, ParentOf(S, scope), name)
    IN  IF up # 0 THEN up
        ELSE IF MapHas(S, kind, scope, name) THEN MapGet(S, kind, scope, name)
        ELSE 0

RECURSIVE SsDefinitionList_getOrNull(_, _, _, _)
SsDefinitionList_getOrNull(S, kind, scope, name) ==
    IF MapHas(S, kind, scope, name) THEN MapGet(S, kind, scope, name)
    ELSE IF scope = 0 THEN 0
    ELSE SsDefinitionList_getOrNull(S, kind, ParentOf(S, scope), name)

SsDefinitionList_get(S, kind, scope, name) ==
    LET item == SsDefinitionList_getOrNull(S, kind, scope, name)
    IN  IF item = 0 THEN Raise(S, "NotDefined") ELSE Ok(S, item)

\* newFunction of a list: the object a namespace makes for a new name.
NewFunction(S, kind, scope, name) ==
    CASE kind = "structDefs" ->
           [S EXCEPT !.structDefs =
                Append(@, [name |-> name, definitions |-> scope, values |-> <<>>])]
      [] kind = "attributeDefs" ->
           [S EXCEPT !.attributeDefs =
                Append(@, [name |-> name, definitions |-> scope, dataType |-> 0])]
      [] kind = "elementDefs" ->
           [S EXCEPT !.elementDefs =
                Append(@, [name |-> name, parent |-> scope, content |-> 0]),
                     !.definitions = Append(@, EmptyDefinitions)]

\* map.set(name, item) for a name the map does not hold
MapSet(S, kind, scope, item) ==
    [S EXCEPT !.definitions[scope + 1][kind] = Append(@, item)]

\* An add that refuses a name any scope of the chain defines.
AddChecksChain(S, kind, scope, name) ==
    IF SsDefinitionList_has(S, kind, scope, name) THEN Raise(S, "AlreadyExists")
    ELSE IF kind = "valueTypeDefs" THEN Raise(S, "NotSupported")
    ELSE LET item == Len(Heap(S, kind)) + 1
         IN  Ok(MapSet(NewFunction(S, kind, scope, name), kind, scope, item), item)

SsDefinitionList_add(S, kind, scope, name) ==
    IF MapHas(S, kind, scope, name) THEN Raise(S, "AlreadyExists")
    ELSE IF kind = "valueTypeDefs" THEN Raise(S, "NotSupported")
    ELSE LET item == Len(Heap(S, kind)) + 1
         IN  Ok(MapSet(NewFunction(S, kind, scope, name), kind, scope, item), item)

\* addExisting(name, item) with item a new object of the namespace's heap
SsDefinitionList_addExisting(S, kind, scope, name, item) ==
    IF MapHas(S, kind, scope, name) THEN Raise(S, "AlreadyExists")
    ELSE Ok(MapSet(S, kind, scope, item), item)

\* ------------------------------------------------------------ SsDefinitions

\* new SsEnumTypeDef(name, values), then valueTypeDefs.addExisting: the enum
\* is kept only when addExisting took it.
SsDefinitions_addEnum(S, scope, name, values) ==
    LET item == Len(S.valueTypeDefs) + 1
        made == [S EXCEPT !.valueTypeDefs =
                     Append(@, [name |-> name, values |-> values])]
        r    == SsDefinitionList_addExisting(made, "valueTypeDefs", scope, name, item)
    IN  IF r.err # "" THEN Raise(S, r.err) ELSE r
\* ------------------------------------------------------------------ SsRange

\* new SsRange(min, max)
SsRange_new(min, max) ==
    IF min # null /\ max # null /\ LessThan(max, min)
    THEN [err |-> "InvalidBounds", r |-> [min |-> min, max |-> max]]
    ELSE [err |-> "", r |-> [min |-> min, max |-> max]]

\* An isRepeatedStar that knows the encoding with min 0 only.
IsRepeatedStarZeroOnly(r) == r.min # null /\ r.min = 0 /\ r.max = null

SsRange_isRequired(r)     == r.min # null /\ r.max # null /\ r.min = 1 /\ r.max = 1
SsRange_isOptional(r)     == r.min # null /\ r.max # null /\ r.min = 0 /\ r.max = 1
SsRange_isRepeatedPlus(r) == r.min # null /\ r.min = 1 /\ r.max = null
SsRange_isRepeatedStar(r) == ((r.min # null /\ r.min = 0) \/ r.min = null) /\ r.max = null
SsRange_isFixed(r)        == r.min # null /\ r.max # null /\ StrictEquals(r.min, r.max)

SsRange_required     == SsRange_new(1, 1).r
SsRange_optional     == SsRange_new(0, 1).r
SsRange_repeatedPlus == SsRange_new(1, null).r
SsRange_repeatedStar == SsRange_new(null, null).r
SsRange_fixed(size)  == SsRange_new(size, size).r

\* -------------------------------------------------------------- SsStructDef

SsStructDef_hasOptional(S, structDef) ==
    \E i \in DOMAIN S.structDefs[structDef].values :
        S.structDefs[structDef].values[i].optional

\* new SsStructValue(name, optional, predefinedType, valueTypeDef, nullable)
SsStructValue_new(name, optional, predefinedType, valueTypeDef, nullable) ==
    [name |-> name, optional |-> optional, predefinedType |-> predefinedType,
     valueTypeDef |-> valueTypeDef, nullable |-> nullable]

\* An addValue that pushes the value before it checks the value before.
AddValuePushesFirst(S, structDef, value) ==
    LET vs == S.structDefs[structDef].values
        pushed == [S EXCEPT !.structDefs[structDef].values = Append(@, value)]
    IN  IF Len(vs) > 0 /\ ~value.optional /\ vs[Len(vs)].optional
        THEN Raise(pushed, "NotOptionalAfterOptional")
        ELSE Ok(pushed, 0)

\* An addValue without the check of the value before.
AddValueUnchecked(S, structDef, value) ==
    Ok([S EXCEPT !.structDefs[structDef].values = Append(@, value)], 0)

SsStructDef_addValue(S, structDef, value) ==
    LET vs == S.structDefs[structDef].values
    IN  IF Len(vs) > 0 /\ ~value.optional /\ vs[Len(vs)].optional
        THEN Raise(S, "NotOptionalAfterOptional")
        ELSE Ok([S EXCEPT !.structDefs[structDef].values = Append(@, value)], 0)

\* ------------------------------------------------------ SsAttributeDataType

\* arrayRange: <<>> is null, <<r>> is the SsRange r.
SsAttributeDataType_isArray(dt)  == dt.arrayRange # <<>>
SsAttributeDataType_isStruct(dt) == dt.structDef # 0

\* A constructor that lets an array of a struct with optional values pass.
DataTypeNewNoStructCheck(S, predefinedType, valueTypeDef, structDef, nullable, arrayRange, arrayNullable) ==
    LET p  == predefinedType # NoPredefinedType
        v  == valueTypeDef # 0
        st == structDef # 0
        dt == [predefinedType |-> predefinedType, valueTypeDef |-> valueTypeDef,
               structDef |-> structDef, nullable |-> nullable,
               arrayRange |-> arrayRange, arrayNullable |-> arrayNullable]
    IN  IF (p /\ (v \/ st)) \/ (v /\ (p \/ st)) \/ (st /\ (p \/ v))
           \/ (~st /\ ~p /\ ~v)
        THEN Raise(S, "InvalidBaseKind")
        ELSE IF arrayRange = <<>> /\ arrayNullable THEN Raise(S, "ArrayNullableWithoutArray")
        ELSE Ok([S EXCEPT !.dataTypes = Append(@, dt)], Len(S.dataTypes) + 1)

\* A constructor that lets arrayNullable pass without an array range.
DataTypeNewNoArrayCheck(S, predefinedType, valueTypeDef, structDef, nullable, arrayRange, arrayNullable) ==
    LET p  == predefinedType # NoPredefinedType
        v  == valueTypeDef # 0
        st == structDef # 0
        dt == [predefinedType |-> predefinedType, valueTypeDef |-> valueTypeDef,
               structDef |-> structDef, nullable |-> nullable,
               arrayRange |-> arrayRange, arrayNullable |-> arrayNullable]
    IN  IF (p /\ (v \/ st)) \/ (v /\ (p \/ st)) \/ (st /\ (p \/ v))
           \/ (~st /\ ~p /\ ~v)
        THEN Raise(S, "InvalidBaseKind")
        ELSE IF SsAttributeDataType_isArray(dt) /\ SsAttributeDataType_isStruct(dt)
                /\ SsStructDef_hasOptional(S, structDef)
        THEN Raise(S, "ArrayOfStructWithOptional")
        ELSE Ok([S EXCEPT !.dataTypes = Append(@, dt)], Len(S.dataTypes) + 1)

\* new SsAttributeDataType(predefinedType, valueTypeDef, structDef, nullable,
\* arrayRange, arrayNullable): the object is kept when the constructor returns.
SsAttributeDataType_new(S, predefinedType, valueTypeDef, structDef, nullable, arrayRange, arrayNullable) ==
    LET p  == predefinedType # NoPredefinedType
        v  == valueTypeDef # 0
        st == structDef # 0
        dt == [predefinedType |-> predefinedType, valueTypeDef |-> valueTypeDef,
               structDef |-> structDef, nullable |-> nullable,
               arrayRange |-> arrayRange, arrayNullable |-> arrayNullable]
    IN  IF (p /\ (v \/ st)) \/ (v /\ (p \/ st)) \/ (st /\ (p \/ v))
           \/ (~st /\ ~p /\ ~v)
        THEN Raise(S, "InvalidBaseKind")
        ELSE IF arrayRange = <<>> /\ arrayNullable THEN Raise(S, "ArrayNullableWithoutArray")
        ELSE IF SsAttributeDataType_isArray(dt) /\ SsAttributeDataType_isStruct(dt)
                /\ SsStructDef_hasOptional(S, structDef)
        THEN Raise(S, "ArrayOfStructWithOptional")
        ELSE Ok([S EXCEPT !.dataTypes = Append(@, dt)], Len(S.dataTypes) + 1)

\* ----------------------------------------------------------- SsAttributeDef

\* new SsAttributeDef(name, definitions): an attribute no list holds (inline)
SsAttributeDef_new(S, name, scope) ==
    Ok([S EXCEPT !.attributeDefs =
            Append(@, [name |-> name, definitions |-> scope, dataType |-> 0])],
       Len(S.attributeDefs) + 1)

\* get dataType
SsAttributeDef_getDataType(S, attributeDef) ==
    IF S.attributeDefs[attributeDef].dataType = 0 THEN Raise(S, "DataTypeNotSet")
    ELSE Ok(S, S.attributeDefs[attributeDef].dataType)

\* A setter that takes every assignment.
SetDataTypeOverwrites(S, attributeDef, value) ==
    Ok([S EXCEPT !.attributeDefs[attributeDef].dataType = value], 0)

\* set dataType
SsAttributeDef_setDataType(S, attributeDef, value) ==
    IF S.attributeDefs[attributeDef].dataType # 0 THEN Raise(S, "DataTypeAlreadySet")
    ELSE Ok([S EXCEPT !.attributeDefs[attributeDef].dataType = value], 0)
\* ------------------------------------------------------------- SsElementDef

\* setUnorderedContent(): a new SsUnorderedContent becomes the content.
SsElementDef_setUnorderedContent(S, elementDef) ==
    LET c == Len(S.contents) + 1
    IN  Ok([S EXCEPT !.contents =
                Append(@, [elementDef |-> elementDef, elements |-> <<>>,
                           attributes |-> <<>>]),
                     !.elementDefs[elementDef].content = c], c)

\* ------------------------------------------------------- SsUnorderedContent

EntriesHave(entries, name) == \E i \in DOMAIN entries : entries[i].name = name

SsUnorderedContent_addElement(S, content, elementName, occurrence) ==
    LET owner == S.contents[content].elementDef
        child == SsDefinitionList_get(S, "elementDefs", owner, elementName)
    IN  IF EntriesHave(S.contents[content].elements, elementName)
        THEN Raise(S, "AlreadyContains")
        ELSE IF child.err # "" THEN Raise(S, child.err)
        ELSE Ok([S EXCEPT !.contents[content].elements =
                     Append(@, [name |-> elementName, elementDef |-> child.ret,
                                occurrence |-> occurrence])], 0)

SsUnorderedContent_addAttribute(S, content, attributeName, occurrence) ==
    LET owner == S.contents[content].elementDef
        child == SsDefinitionList_get(S, "attributeDefs", owner, attributeName)
    IN  IF EntriesHave(S.contents[content].attributes, attributeName)
        THEN Raise(S, "AlreadyContains")
        ELSE IF child.err # "" THEN Raise(S, child.err)
        ELSE Ok([S EXCEPT !.contents[content].attributes =
                     Append(@, [name |-> attributeName, attributeDef |-> child.ret,
                                occurrence |-> occurrence, inline |-> FALSE])], 0)

SsUnorderedContent_addInlineAttribute(S, content, inlineAttributeDef, occurrence) ==
    LET name == S.attributeDefs[inlineAttributeDef].name
    IN  IF EntriesHave(S.contents[content].attributes, name)
        THEN Raise(S, "AlreadyContains")
        ELSE Ok([S EXCEPT !.contents[content].attributes =
                     Append(@, [name |-> name, attributeDef |-> inlineAttributeDef,
                                occurrence |-> occurrence, inline |-> TRUE])], 0)

\* ---------------------------------------------------------------- SmlSchema

SmlSchema_getRootElement(S) ==
    IF S.rootElement = 0 THEN Raise(S, "RootElementNotSet") ELSE Ok(S, S.rootElement)

SmlSchema_setRootElementByName(S, name) ==
    LET e == SsDefinitionList_get(S, "elementDefs", 0, name)
    IN  IF e.err # "" THEN Raise(S, e.err)
        ELSE Ok([S EXCEPT !.rootElement = e.ret], 0)

SmlSchema_setRootElementDefault(S) ==
    LET values == Map(S, "elementDefs", 0)
    IN  IF Len(values) > 1 THEN Raise(S, "MultipleRootElementDefs")
        ELSE Ok([S EXCEPT !.rootElement =
                     IF Len(values) = 0 THEN undefined ELSE values[1]], 0)
\* --------------------------------------------------------------- SML nodes
\* SmlDocument, SmlElement and SmlAttribute come from sml.js.  An element is
\* its name, its attributes (each a name and its values) and its child
\* elements, both in the order they were added; a document is its root element.

SmlElement_new(name) == [name |-> name, attributes |-> <<>>, elements |-> <<>>]

\* element.addAttribute(name, values)
SmlElement_addAttribute(element, name, values) ==
    [element EXCEPT !.attributes = Append(@, [name |-> name, values |-> values])]

\* element.addElement(name), with child what the new element has become
SmlElement_addElement(element, child) ==
    [element EXCEPT !.elements = Append(@, child)]

\* element.elements(name), element.attributes(name)
SmlElement_elements(element, name) ==
    SelectSeq(element.elements, LAMBDA c : c.name = name)

SmlElement_attributes(element, name) ==
    SelectSeq(element.attributes, LAMBDA a : a.name = name)

SmlElement_hasElement(element, name) == SmlElement_elements(element, name) # <<>>

\* assureName, assureElementNames, assureAttributeNames, assureNoElements,
\* assureNoAttributes: TRUE when the assertion holds
SmlElement_assureName(element, name) == element.name = name

SmlElement_assureElementNames(element, names) ==
    \A i \in DOMAIN element.elements : element.elements[i].name \in names

SmlElement_assureAttributeNames(element, names) ==
    \A i \in DOMAIN element.attributes : element.attributes[i].name \in names

SmlElement_assureNoElements(element) == element.elements = <<>>

SmlElement_assureNoAttributes(element) == element.attributes = <<>>

\* assureChoice(names, null, true): exactly one child element has one of the names
SmlElement_assureChoice(element, names) ==
    Cardinality({i \in DOMAIN element.elements : element.elements[i].name \in names}) = 1

\* optionalElement(name): no child of that name is null (<<>>), one is <<child>>,
\* more is an error
SmlElement_optionalElement(element, name) ==
    LET found == SmlElement_elements(element, name)
    IN  [err |-> IF Len(found) > 1 THEN "MoreThanOneElement" ELSE "", ret |-> found]

\* optionalAttribute(name), requiredAttribute(name)
SmlElement_optionalAttribute(element, name) ==
    LET found == SmlElement_attributes(element, name)
    IN  [err |-> IF Len(found) > 1 THEN "MoreThanOneAttribute" ELSE "", ret |-> found]

SmlElement_requiredAttribute(element, name) ==
    LET found == SmlElement_attributes(element, name)
    IN  [err |-> IF Len(found) = 0 THEN "MissingAttribute"
                 ELSE IF Len(found) > 1 THEN "MoreThanOneAttribute" ELSE "",
         ret |-> found]

\* attribute.asString(): the single value
SmlAttribute_asString(attribute) ==
    IF Len(attribute.values) # 1 THEN [err |-> "NotOneValue", ret |-> ""]
    ELSE [err |-> "", ret |-> attribute.values[1]]

\* attribute.asStringArray()
SmlAttribute_asStringArray(attribute) == attribute.values

\* attribute.assureValueCountMinMax(min, max); assureValueCount(n) is (n, n)
SmlAttribute_assureValueCountMinMax(attribute, min, max) ==
    Len(attribute.values) >= min /\ Len(attribute.values) <= max

\* attribute.getString(index), index counted from 0
SmlAttribute_getString(attribute, index) == attribute.values[index + 1]

\* attribute.getEnum(labels, index): the place, counted from 0, the value has
\* in labels; -1 stands for the error of a value that is none of them
SmlAttribute_getEnum(attribute, labels, index) ==
    LET at == {i \in DOMAIN labels : labels[i] = attribute.values[index + 1]}
    IN  IF at = {} THEN -1 ELSE (CHOOSE i \in at : \A j \in at : i <= j) - 1

\* ------------------------------------------------------ SsPredefinedTypeUtil

\* enum SsPredefinedType
SsPredefinedType ==
    {"Bool", "Int", "UInt", "Number", "String", "Date", "Time", "Base64", "DateTime"}

SsPredefinedTypeUtil_getPredefinedTypeOrNull(str) ==
    LET lower == StringToLowerCase(str)
    IN  CASE lower = "bool"     -> "Bool"
          [] lower = "int"      -> "Int"
          [] lower = "uint"     -> "UInt"
          [] lower = "number"   -> "Number"
          [] lower = "string"   -> "String"
          [] lower = "date"     -> "Date"
          [] lower = "time"     -> "Time"
          [] lower = "base64"   -> "Base64"
          [] lower = "datetime" -> "DateTime"
          [] OTHER              -> NoPredefinedType

SsPredefinedTypeUtil_getPredefinedTypeString(predefinedType) ==
    CASE predefinedType = "Bool"     -> [err |-> "", ret |-> "Bool"]
      [] predefinedType = "Int"      -> [err |-> "", ret |-> "Int"]
      [] predefinedType = "UInt"     -> [err |-> "", ret |-> "UInt"]
      [] predefinedType = "Number"   -> [err |-> "", ret |-> "Number"]
      [] predefinedType = "String"   -> [err |-> "", ret |-> "String"]
      [] predefinedType = "Date"     -> [err |-> "", ret |-> "Date"]
      [] predefinedType = "Time"     -> [err |-> "", ret |-> "Time"]
      [] predefinedType = "DateTime" -> [err |-> "", ret |-> "DateTime"]
      [] OTHER -> [err |-> "InvalidPredefinedTypeString", ret |-> ""]

\* ------------------------------------------------------------ type strings

\* The element of a set of one element.  Only({e(r) : r \in {x}}) is e of the
\* value of x, with x evaluated once.
Only(set) == CHOOSE v \in set : TRUE

\* SsStructValue.getTypeString()
SsStructValue_getTypeString(S, value) ==
    Only({[err |-> base.err, ret |-> base.ret \o (IF value.nullable THEN "?" ELSE "")] :
          base \in {IF value.predefinedType # NoPredefinedType
                    THEN SsPredefinedTypeUtil_getPredefinedTypeString(value.predefinedType)
                    ELSE [err |-> "", ret |-> S.valueTypeDefs[value.valueTypeDef].name]}})

\* The [min..max] or [size] part of SsAttributeDataType.toString()
ArrayRangeString(r) ==
    "[" \o NumberToString(r.min)
    \o (IF SsRange_isFixed(r) THEN ""
        ELSE ".." \o (IF r.max = null THEN "N" ELSE NumberToString(r.max)))
    \o "]"

\* The type name SsAttributeDataType.toString() starts with
BaseTypeString(S, dt) ==
    IF dt.predefinedType # NoPredefinedType
    THEN SsPredefinedTypeUtil_getPredefinedTypeString(dt.predefinedType)
    ELSE IF dt.valueTypeDef # 0
    THEN [err |-> "", ret |-> S.valueTypeDefs[dt.valueTypeDef].name]
    ELSE [err |-> "", ret |-> S.structDefs[dt.structDef].name]

\* SsAttributeDataType.toString()
SsAttributeDataType_toString(S, dataType) ==
    Only({[err |-> base.err,
           ret |-> base.ret \o (IF dt.nullable THEN "?" ELSE "")
                   \o (IF dt.arrayRange = <<>> THEN "" ELSE ArrayRangeString(dt.arrayRange[1]))
                   \o (IF dt.arrayNullable THEN "?" ELSE "")] :
          dt \in {S.dataTypes[dataType]}, base \in {BaseTypeString(S, S.dataTypes[dataType])}})

\* ------------------------------------------------------ SmlSchemaSerializer
\* Each operator gives [err, element]: the error raised, or the element the
\* definition was written to after it.

SerializeOk(element)  == [err |-> "", element |-> element]
SerializeRaise(err)   == [err |-> err, element |-> SmlElement_new("")]

SmlSchemaSerializer_serializeValueTypeDef(S, valueTypeDef, sElement) ==
    SerializeOk(SmlElement_addElement(sElement,
        SmlElement_addAttribute(
            SmlElement_addAttribute(SmlElement_new("EnumTypeDef"), "Name",
                                    <<S.valueTypeDefs[valueTypeDef].name>>),
            "Values", S.valueTypeDefs[valueTypeDef].values)))

\* sStructDef.addAttribute("Value", [...]) for one value
SerializeStructValue(S, value, sStructDef) ==
    Only({IF typeString.err # "" THEN SerializeRaise(typeString.err)
          ELSE SerializeOk(SmlElement_addAttribute(sStructDef, "Value",
                   <<value.name, IF value.optional THEN "Optional" ELSE "Required",
                     typeString.ret>>)) :
          typeString \in {SsStructValue_getTypeString(S, value)}})

\* for (let value of structDef.values), from the i-th value on; done is the
\* outcome so far
RECURSIVE SerializeStructValues(_, _, _, _)
SerializeStructValues(S, values, i, done) ==
    IF done.err # "" \/ i > Len(values) THEN done
    ELSE Only({SerializeStructValues(S, values, i + 1, next) :
               next \in {SerializeStructValue(S, values[i], done.element)}})

SmlSchemaSerializer_serializeStructDef(S, structDef, sElement) ==
    Only({IF r.err # "" THEN r ELSE SerializeOk(SmlElement_addElement(sElement, r.element)) :
          r \in {SerializeStructValues(S, S.structDefs[structDef].values, 1,
                     SerializeOk(SmlElement_addAttribute(SmlElement_new("StructDef"), "Name",
                                     <<S.structDefs[structDef].name>>)))}})

SmlSchemaSerializer_serializeOccurrence(occurrence) ==
    IF SsRange_isRequired(occurrence) THEN [err |-> "", ret |-> "Required"]
    ELSE IF SsRange_isOptional(occurrence) THEN [err |-> "", ret |-> "Optional"]
    ELSE IF SsRange_isRepeatedPlus(occurrence) THEN [err |-> "", ret |-> "Repeated+"]
    ELSE IF SsRange_isRepeatedStar(occurrence) THEN [err |-> "", ret |-> "Repeated*"]
    ELSE [err |-> "InvalidOccurrence", ret |-> ""]

\* attributeDef.dataType.toString()
DataTypeString(S, attributeDef) ==
    Only({IF dataType.err # "" THEN [err |-> dataType.err, ret |-> ""]
          ELSE SsAttributeDataType_toString(S, dataType.ret) :
          dataType \in {SsAttributeDef_getDataType(S, attributeDef)}})

SmlSchemaSerializer_serializeAttributeDef(S, attributeDef, sElement) ==
    Only({IF text.err # "" THEN SerializeRaise(text.err)
          ELSE SerializeOk(SmlElement_addElement(sElement,
                   SmlElement_addAttribute(
                       SmlElement_addAttribute(SmlElement_new("AttributeDef"), "Name",
                                               <<S.attributeDefs[attributeDef].name>>),
                       "DataType", <<text.ret>>))) :
          text \in {DataTypeString(S, attributeDef)}})

\* sElementDef.addAttribute("Attribute", values) for one unorderedAttribute
SerializeUnorderedAttribute(S, entry, sElementDef) ==
    Only({IF occurrenceStr.err # "" THEN SerializeRaise(occurrenceStr.err)
          ELSE IF text.err # "" THEN SerializeRaise(text.err)
          ELSE SerializeOk(SmlElement_addAttribute(sElementDef, "Attribute",
                   <<S.attributeDefs[entry.attributeDef].name, occurrenceStr.ret>>
                   \o (IF entry.inline THEN <<text.ret>> ELSE <<>>))) :
          occurrenceStr \in {SmlSchemaSerializer_serializeOccurrence(entry.occurrence)},
          text \in {IF entry.inline THEN DataTypeString(S, entry.attributeDef)
                    ELSE [err |-> "", ret |-> ""]}})

\* for (let unorderedAttribute of unorderedContent.unorderedAttributes)
RECURSIVE SerializeUnorderedAttributes(_, _, _, _)
SerializeUnorderedAttributes(S, entries, i, done) ==
    IF done.err # "" \/ i > Len(entries) THEN done
    ELSE Only({SerializeUnorderedAttributes(S, entries, i + 1, next) :
               next \in {SerializeUnorderedAttribute(S, entries[i], done.element)}})

\* sElementDef.addAttribute("Element", [...]) for one unorderedElement
SerializeUnorderedElement(S, entry, sElementDef) ==
    Only({IF occurrenceStr.err # "" THEN SerializeRaise(occurrenceStr.err)
          ELSE SerializeOk(SmlElement_addAttribute(sElementDef, "Element",
                   <<S.elementDefs[entry.elementDef].name, occurrenceStr.ret>>)) :
          occurrenceStr \in {SmlSchemaSerializer_serializeOccurrence(entry.occurrence)}})

\* for (let unorderedElement of unorderedContent.unorderedElements)
RECURSIVE SerializeUnorderedElements(_, _, _, _)
SerializeUnorderedElements(S, entries, i, done) ==
    IF done.err # "" \/ i > Len(entries) THEN done
    ELSE Only({SerializeUnorderedElements(S, entries, i + 1, next) :
               next \in {SerializeUnorderedElement(S, entries[i], done.element)}})

\* The content of an element written to sElementDef, when it has one
SerializeContent(S, content, done) ==
    IF done.err # "" \/ content = 0 THEN done
    ELSE SerializeUnorderedElements(S, S.contents[content].elements, 1,
             SerializeUnorderedAttributes(S, S.contents[content].attributes, 1, done))

RECURSIVE SmlSchemaSerializer_serializeDefinitions(_, _, _)
RECURSIVE SmlSchemaSerializer_serializeElementDef(_, _, _)
RECURSIVE SerializeEach(_, _, _, _, _)

\* One of the four loops of serializeDefinitions, from the i-th item on; done
\* is the outcome so far.
SerializeEach(S, kind, items, i, done) ==
    IF done.err # "" \/ i > Len(items) THEN done
    ELSE Only({SerializeEach(S, kind, items, i + 1, next) :
               next \in {CASE kind = "valueTypeDefs" ->
                           SmlSchemaSerializer_serializeValueTypeDef(S, items[i], done.element)
                      [] kind = "structDefs" ->
                           SmlSchemaSerializer_serializeStructDef(S, items[i], done.element)
                      [] kind = "attributeDefs" ->
                           SmlSchemaSerializer_serializeAttributeDef(S, items[i], done.element)
                      [] kind = "elementDefs" ->
                           SmlSchemaSerializer_serializeElementDef(S, items[i], done.element)}})

SmlSchemaSerializer_serializeElementDef(S, elementDef, sElement) ==
    Only({IF r.err # "" THEN r ELSE SerializeOk(SmlElement_addElement(sElement, r.element)) :
          r \in {SerializeContent(S, S.elementDefs[elementDef].content,
                     SmlSchemaSerializer_serializeDefinitions(S, elementDef,
                         SmlElement_addAttribute(SmlElement_new("ElementDef"), "Name",
                                                 <<S.elementDefs[elementDef].name>>)))}})

\* definitions is the scope whose four lists are written
SmlSchemaSerializer_serializeDefinitions(S, definitions, sElement) ==
    SerializeEach(S, "elementDefs", Map(S, "elementDefs", definitions), 1,
      SerializeEach(S, "attributeDefs", Map(S, "attributeDefs", definitions), 1,
        SerializeEach(S, "structDefs", Map(S, "structDefs", definitions), 1,
          SerializeEach(S, "valueTypeDefs", Map(S, "valueTypeDefs", definitions), 1,
                        SerializeOk(sElement)))))

\* sRootElement.addAttribute("RootElement", [schema.getRootElement().name]);
\* the name of an undefined root element is a TypeError
SerializeRootElement(S, sRootElement) ==
    Only({IF root.err # "" THEN SerializeRaise(root.err)
          ELSE IF root.ret = undefined THEN SerializeRaise("TypeError")
          ELSE SerializeOk(SmlElement_addAttribute(sRootElement, "RootElement",
                               <<S.elementDefs[root.ret].name>>)) :
          root \in {SmlSchema_getRootElement(S)}})

\* A serialize that writes RootElement whatever the number of elements.
SerializeAlwaysRoot(S) ==
    Only({IF defined.err # "" THEN defined
          ELSE SerializeRootElement(S, defined.element) :
          defined \in {SmlSchemaSerializer_serializeDefinitions(S, 0, SmlElement_new("Schema"))}})

\* serialize(schema): [err, element], element the root of the SmlDocument
SmlSchemaSerializer_serialize(S) ==
    Only({IF defined.err # "" \/ Len(Map(S, "elementDefs", 0)) <= 1 THEN defined
          ELSE SerializeRootElement(S, defined.element) :
          defined \in {SmlSchemaSerializer_serializeDefinitions(S, 0, SmlElement_new("Schema"))}})

\* ---------------------------------------------------------- SmlSchemaLoader
\* Each operator takes L, the loader's schema so far, and gives [s, err, ret]
\* as the model API does.  In a loop, done is the outcome so far.

\* getOccurrence(sAttribute, index): [err, r]
SmlSchemaLoader_getOccurrence(sAttribute, index) ==
    Only({CASE occurrenceIndex = 0 -> [err |-> "", r |-> SsRange_required]
            [] occurrenceIndex = 1 -> [err |-> "", r |-> SsRange_optional]
            [] occurrenceIndex = 2 -> [err |-> "", r |-> SsRange_repeatedPlus]
            [] occurrenceIndex = 3 -> [err |-> "", r |-> SsRange_repeatedStar]
            [] OTHER -> [err |-> "InvalidEnumValue", r |-> SsRange_required] :
          occurrenceIndex \in
              {SmlAttribute_getEnum(sAttribute,
                   <<"Required", "Optional", "Repeated+", "Repeated*">>, index)}})

\* The array bounds of loadDataType: [err, r] of the text between [ and ]
LoadArrayBounds(arrayBoundsStr) ==
    IF Includes(arrayBoundsStr, "..")
    THEN Only({SsRange_new(ParseInt(parts[1]),
                           IF StringToUpperCase(parts[2]) # "N" THEN ParseInt(parts[2])
                           ELSE null) :
               parts \in {Split2(arrayBoundsStr, "..")}})
    ELSE Only({IF LessThan(fixedSize, 0)
               THEN [err |-> "InvalidArraySize", r |-> SsRange_fixed(fixedSize)]
               ELSE [err |-> "", r |-> SsRange_fixed(fixedSize)] :
               fixedSize \in {ParseInt(arrayBoundsStr)}})

\* The suffixes of a data type text: whether it ends with ]?, the text
\* between [ and ] as <<text>> (<<>> when it does not end with ]), whether
\* what is before ends with ?, and the name that is left
SplitDataType(dataTypeStr) ==
    Only({Only({[err |-> IF EndsWith(str1, "]") /\ IndexOf(str1, "[") < 0
                         THEN "InvalidDataType" ELSE "",
                 arrayNullable |-> EndsWith(dataTypeStr, "]?"),
                 arrayBoundsStr |->
                     IF EndsWith(str1, "]") /\ IndexOf(str1, "[") >= 0
                     THEN <<Substring(str1, IndexOf(str1, "[") + 1, Len(str1) - 1)>>
                     ELSE <<>>,
                 nullable |-> EndsWith(str2, "?"),
                 name |-> IF EndsWith(str2, "?") THEN Substring(str2, 0, Len(str2) - 1)
                          ELSE str2] :
                str2 \in {IF EndsWith(str1, "]") /\ IndexOf(str1, "[") >= 0
                          THEN Substring(str1, 0, IndexOf(str1, "[")) ELSE str1}}) :
          str1 \in {IF EndsWith(dataTypeStr, "]?")
                    THEN Substring(dataTypeStr, 0, Len(dataTypeStr) - 1)
                    ELSE dataTypeStr}})

\* A resolution that asks the value types before the predefined names.
ResolveBaseValueTypeFirst(L, name, definitions) ==
    Only({IF valueTypeDef # 0
          THEN [err |-> "", predefinedType |-> NoPredefinedType,
                valueTypeDef |-> valueTypeDef, structDef |-> 0]
          ELSE IF SsPredefinedTypeUtil_getPredefinedTypeOrNull(name) # NoPredefinedType
          THEN [err |-> "", valueTypeDef |-> 0, structDef |-> 0,
                predefinedType |-> SsPredefinedTypeUtil_getPredefinedTypeOrNull(name)]
          ELSE Only({[err |-> structDef.err, predefinedType |-> NoPredefinedType,
                      valueTypeDef |-> 0, structDef |-> structDef.ret] :
                     structDef \in {SsDefinitionList_get(L, "structDefs",
                                                         definitions, name)}}) :
          valueTypeDef \in {SsDefinitionList_getOrNull(L, "valueTypeDefs",
                                                       definitions, name)}})

\* The base of loadDataType: the predefined type of a name, else the value
\* type the scope chain has for it, else the struct, which must be there
ResolveBase(L, name, definitions) ==
    Only({IF predefinedType # NoPredefinedType
          THEN [err |-> "", predefinedType |-> predefinedType, valueTypeDef |-> 0,
                structDef |-> 0]
          ELSE Only({IF valueTypeDef # 0
                     THEN [err |-> "", predefinedType |-> NoPredefinedType,
                           valueTypeDef |-> valueTypeDef, structDef |-> 0]
                     ELSE Only({[err |-> structDef.err, predefinedType |-> NoPredefinedType,
                                 valueTypeDef |-> 0, structDef |-> structDef.ret] :
                                structDef \in {SsDefinitionList_get(L, "structDefs",
                                                                    definitions, name)}}) :
                     valueTypeDef \in {SsDefinitionList_getOrNull(L, "valueTypeDefs",
                                                                  definitions, name)}}) :
          predefinedType \in {SsPredefinedTypeUtil_getPredefinedTypeOrNull(name)}})

\* loadDataType(dataTypeStr, definitions): ret is the new SsAttributeDataType
SmlSchemaLoader_loadDataType(L, dataTypeStr, definitions) ==
    Only({IF parts.err # "" THEN Raise(L, parts.err)
          ELSE Only({IF arrayBounds.err # "" THEN Raise(L, arrayBounds.err)
                     ELSE Only({IF base.err # "" THEN Raise(L, base.err)
                                ELSE SsAttributeDataType_new(L, base.predefinedType,
                                         base.valueTypeDef, base.structDef, parts.nullable,
                                         IF parts.arrayBoundsStr = <<>> THEN <<>>
                                         ELSE <<arrayBounds.r>>,
                                         parts.arrayNullable) :
                                base \in {ResolveBase(L, parts.name, definitions)}}) :
                     arrayBounds \in {IF parts.arrayBoundsStr = <<>>
                                      THEN [err |-> "", r |-> SsRange_required]
                                      ELSE LoadArrayBounds(parts.arrayBoundsStr[1])}}) :
          parts \in {SplitDataType(dataTypeStr)}})

\* The body of the loop over attributes("Element") for one attribute
LoadUnorderedElement(L, sAttribute, unorderedContent) ==
    IF ~SmlAttribute_assureValueCountMinMax(sAttribute, 2, 2)
    THEN Raise(L, "InvalidValueCount")
    ELSE Only({IF occurrence.err # "" THEN Raise(L, occurrence.err)
               ELSE SsUnorderedContent_addElement(L, unorderedContent,
                        SmlAttribute_getString(sAttribute, 0), occurrence.r) :
               occurrence \in {SmlSchemaLoader_getOccurrence(sAttribute, 1)}})

\* for (let sElementAttribute of sUnorderedContentElement.attributes("Element"))
RECURSIVE LoadUnorderedElements(_, _, _, _)
LoadUnorderedElements(done, sAttributes, i, unorderedContent) ==
    IF done.err # "" \/ i > Len(sAttributes) THEN done
    ELSE Only({LoadUnorderedElements(next, sAttributes, i + 1, unorderedContent) :
               next \in {LoadUnorderedElement(done.s, sAttributes[i], unorderedContent)}})

\* inlineAttributeDef.dataType = ...; addInlineAttribute(inlineAttributeDef, occurrence)
AddLoadedInlineAttribute(dataType, inlineAttributeDef, occurrence, unorderedContent) ==
    IF dataType.err # "" THEN dataType
    ELSE Only({IF set.err # "" THEN set
               ELSE SsUnorderedContent_addInlineAttribute(set.s, unorderedContent,
                        inlineAttributeDef, occurrence) :
               set \in {SsAttributeDef_setDataType(dataType.s, inlineAttributeDef,
                                                   dataType.ret)}})

\* The inline branch: a new SsAttributeDef, its data type, addInlineAttribute
LoadInlineAttribute(L, sAttribute, attributeName, occurrence, elementDef, unorderedContent) ==
    Only({AddLoadedInlineAttribute(
              SmlSchemaLoader_loadDataType(made.s, SmlAttribute_getString(sAttribute, 2),
                                           elementDef),
              made.ret, occurrence, unorderedContent) :
          made \in {SsAttributeDef_new(L, attributeName, elementDef)}})

\* The body of the loop over attributes("Attribute") for one attribute
LoadUnorderedAttribute(L, sAttribute, elementDef, unorderedContent) ==
    IF ~SmlAttribute_assureValueCountMinMax(sAttribute, 2, 3)
    THEN Raise(L, "InvalidValueCount")
    ELSE Only({IF occurrence.err # "" THEN Raise(L, occurrence.err)
               ELSE IF Len(sAttribute.values) = 2
               THEN SsUnorderedContent_addAttribute(L, unorderedContent,
                        SmlAttribute_getString(sAttribute, 0), occurrence.r)
               ELSE LoadInlineAttribute(L, sAttribute, SmlAttribute_getString(sAttribute, 0),
                                        occurrence.r, elementDef, unorderedContent) :
               occurrence \in {SmlSchemaLoader_getOccurrence(sAttribute, 1)}})

\* for (let sAttributeAttribute of sUnorderedContentElement.attributes("Attribute"))
RECURSIVE LoadUnorderedAttributes(_, _, _, _, _)
LoadUnorderedAttributes(done, sAttributes, i, elementDef, unorderedContent) ==
    IF done.err # "" \/ i > Len(sAttributes) THEN done
    ELSE Only({LoadUnorderedAttributes(next, sAttributes, i + 1, elementDef, unorderedContent) :
               next \in {LoadUnorderedAttribute(done.s, sAttributes[i], elementDef,
                                                unorderedContent)}})

\* The type of loadStructValue: [err, predefinedType, valueTypeDef] of a name
ResolveValueType(L, name, definitions) ==
    Only({IF predefinedType # NoPredefinedType
          THEN [err |-> "", predefinedType |-> predefinedType, valueTypeDef |-> 0]
          ELSE Only({[err |-> valueTypeDef.err, predefinedType |-> NoPredefinedType,
                      valueTypeDef |-> valueTypeDef.ret] :
                     valueTypeDef \in {SsDefinitionList_get(L, "valueTypeDefs",
                                                            definitions, name)}}) :
          predefinedType \in {SsPredefinedTypeUtil_getPredefinedTypeOrNull(name)}})

\* loadStructValue(sValueAttribute, structDef, definitions)
SmlSchemaLoader_loadStructValue(L, sValueAttribute, structDef, definitions) ==
    IF ~SmlAttribute_assureValueCountMinMax(sValueAttribute, 3, 3)
    THEN Raise(L, "InvalidValueCount")
    ELSE Only({IF optional < 0 THEN Raise(L, "InvalidEnumValue")
               ELSE Only({IF type.err # "" THEN Raise(L, type.err)
                          ELSE SsStructDef_addValue(L, structDef,
                                   SsStructValue_new(SmlAttribute_getString(sValueAttribute, 0),
                                       optional = 1, type.predefinedType, type.valueTypeDef,
                                       EndsWith(typeStr, "?"))) :
                          type \in {ResolveValueType(L,
                                        IF EndsWith(typeStr, "?")
                                        THEN Substring(typeStr, 0, Len(typeStr) - 1)
                                        ELSE typeStr, definitions)}}) :
               optional \in {SmlAttribute_getEnum(sValueAttribute, <<"Required", "Optional">>, 1)},
               typeStr \in {SmlAttribute_getString(sValueAttribute, 2)}})

\* for (let sValueAttribute of sStructDef.attributes("Value"))
RECURSIVE LoadStructValues(_, _, _, _, _)
LoadStructValues(done, sAttributes, i, structDef, definitions) ==
    IF done.err # "" \/ i > Len(sAttributes) THEN done
    ELSE Only({LoadStructValues(next, sAttributes, i + 1, structDef, definitions) :
               next \in {SmlSchemaLoader_loadStructValue(done.s, sAttributes[i], structDef,
                                                         definitions)}})

\* requiredAttribute(name).asString(): [err, ret]
RequiredString(sElement, name) ==
    Only({IF sAttribute.err # "" THEN [err |-> sAttribute.err, ret |-> ""]
          ELSE SmlAttribute_asString(sAttribute.ret[1]) :
          sAttribute \in {SmlElement_requiredAttribute(sElement, name)}})

\* loadEnumTypeDef(sEnumTypeDef, definitions)
SmlSchemaLoader_loadEnumTypeDef(L, sEnumTypeDef, definitions) ==
    IF ~SmlElement_assureNoElements(sEnumTypeDef) THEN Raise(L, "InvalidElementName")
    ELSE IF ~SmlElement_assureAttributeNames(sEnumTypeDef, {"Name", "Values"})
    THEN Raise(L, "InvalidAttributeName")
    ELSE Only({IF name.err # "" THEN Raise(L, name.err)
               ELSE IF sValues.err # "" THEN Raise(L, sValues.err)
               ELSE SsDefinitions_addEnum(L, definitions, name.ret,
                                          SmlAttribute_asStringArray(sValues.ret[1])) :
               name \in {RequiredString(sEnumTypeDef, "Name")},
               sValues \in {SmlElement_requiredAttribute(sEnumTypeDef, "Values")}})

\* attributeDef.dataType = loadDataType(dataTypeStr, definitions)
SetLoadedDataType(dataType, attributeDef) ==
    IF dataType.err # "" THEN dataType
    ELSE SsAttributeDef_setDataType(dataType.s, attributeDef, dataType.ret)

\* The Attribute loop of loadDefinitions after attributeDefs.add(name)
LoadAttributeDef(L, sAttributeDef, attributeDef, definitions) ==
    Only({IF dataTypeStr.err # "" THEN Raise(L, dataTypeStr.err)
          ELSE SetLoadedDataType(
                   SmlSchemaLoader_loadDataType(L, dataTypeStr.ret, definitions),
                   attributeDef) :
          dataTypeStr \in {RequiredString(sAttributeDef, "DataType")}})

RECURSIVE SmlSchemaLoader_loadDefinitions(_, _, _)
RECURSIVE SmlSchemaLoader_loadElementDef(_, _, _)
RECURSIVE LoadAdded(_, _, _, _)
RECURSIVE LoadOne(_, _, _, _)
RECURSIVE LoadEach(_, _, _, _, _)

\* What a loop of loadDefinitions does with the definition add(name) made
LoadAdded(added, kind, sChild, definitions) ==
    IF added.err # "" THEN added
    ELSE CASE kind = "structDefs" ->
                LoadStructValues(added, SmlElement_attributes(sChild, "Value"), 1,
                                 added.ret, definitions)
           [] kind = "attributeDefs" ->
                LoadAttributeDef(added.s, sChild, added.ret, definitions)
           [] kind = "elementDefs" ->
                SmlSchemaLoader_loadElementDef(added.s, sChild, added.ret)

\* The body of one of the four loops of loadDefinitions for one child element
LoadOne(L, kind, sChild, definitions) ==
    IF kind = "valueTypeDefs" THEN SmlSchemaLoader_loadEnumTypeDef(L, sChild, definitions)
    ELSE Only({IF name.err # "" THEN Raise(L, name.err)
               ELSE Only({LoadAdded(added, kind, sChild, definitions) :
                          added \in {SsDefinitionList_add(L, kind, definitions, name.ret)}}) :
               name \in {RequiredString(sChild, "Name")}})

\* One of the four loops of loadDefinitions, from the i-th child on
LoadEach(done, kind, sChildren, i, definitions) ==
    IF done.err # "" \/ i > Len(sChildren) THEN done
    ELSE Only({LoadEach(next, kind, sChildren, i + 1, definitions) :
               next \in {LoadOne(done.s, kind, sChildren[i], definitions)}})

\* The optional Definitions child of loadElementDef
LoadNestedDefinitions(L, sDefinitionsElement, elementDef) ==
    IF sDefinitionsElement.err # "" THEN Raise(L, sDefinitionsElement.err)
    ELSE IF sDefinitionsElement.ret = <<>> THEN Ok(L, 0)
    ELSE IF ~SmlElement_assureElementNames(sDefinitionsElement.ret[1],
                                            {"EnumType", "Struct", "Attribute", "Element"})
    THEN Raise(L, "InvalidElementName")
    ELSE IF ~SmlElement_assureNoAttributes(sDefinitionsElement.ret[1])
    THEN Raise(L, "InvalidAttributeName")
    ELSE SmlSchemaLoader_loadDefinitions(L, sDefinitionsElement.ret[1], elementDef)

\* The two loops of loadElementDef over the UnorderedContent child
LoadUnorderedContent(content, sContent, elementDef) ==
    LoadUnorderedAttributes(
        LoadUnorderedElements(content, SmlElement_attributes(sContent, "Element"), 1,
                              content.ret),
        SmlElement_attributes(sContent, "Attribute"), 1, elementDef, content.ret)

\* loadElementDef from assureChoice on; nested is the outcome before it
LoadContent(nested, sElementDef, elementDef) ==
    IF nested.err # "" THEN nested
    ELSE IF ~SmlElement_assureChoice(sElementDef, {"UnorderedContent", "ListContent"})
    THEN Raise(nested.s, "InvalidChoice")
    ELSE IF SmlElement_hasElement(sElementDef, "ListContent") THEN Raise(nested.s, "Todo")
    ELSE Only({LoadUnorderedContent(content,
                   SmlElement_elements(sElementDef, "UnorderedContent")[1], elementDef) :
               content \in {SsElementDef_setUnorderedContent(nested.s, elementDef)}})

\* loadElementDef(sElementDef, elementDef)
SmlSchemaLoader_loadElementDef(L, sElementDef, elementDef) ==
    IF ~SmlElement_assureElementNames(sElementDef,
                                      {"Definitions", "UnorderedContent", "ListContent"})
    THEN Raise(L, "InvalidElementName")
    ELSE IF ~SmlElement_assureAttributeNames(sElementDef, {"Name"})
    THEN Raise(L, "InvalidAttributeName")
    ELSE Only({LoadContent(nested, sElementDef, elementDef) :
               nested \in {LoadNestedDefinitions(L,
                               SmlElement_optionalElement(sElementDef, "Definitions"),
                               elementDef)}})

\* loadDefinitions(sElement, definitions)
SmlSchemaLoader_loadDefinitions(L, sElement, definitions) ==
    LoadEach(
      LoadEach(
        LoadEach(
          LoadEach(Ok(L, 0), "valueTypeDefs", SmlElement_elements(sElement, "EnumType"), 1,
                   definitions),
          "structDefs", SmlElement_elements(sElement, "Struct"), 1, definitions),
        "attributeDefs", SmlElement_elements(sElement, "Attribute"), 1, definitions),
      "elementDefs", SmlElement_elements(sElement, "Element"), 1, definitions)

\* The end of parse: the root element by name or by default
LoadRootElement(defined, sRootElementAttribute) ==
    IF defined.err # "" THEN defined
    ELSE IF sRootElementAttribute.err # "" THEN Raise(defined.s, sRootElementAttribute.err)
    ELSE IF sRootElementAttribute.ret = <<>> THEN SmlSchema_setRootElementDefault(defined.s)
    ELSE Only({IF rootElementName.err # "" THEN Raise(defined.s, rootElementName.err)
               ELSE SmlSchema_setRootElementByName(defined.s, rootElementName.ret) :
               rootElementName \in {SmlAttribute_asString(sRootElementAttribute.ret[1])}})

\* The try block of parse, on the root element of the parsed document
ParseBody(sRootElement) ==
    IF ~SmlElement_assureName(sRootElement, "Schema") THEN Raise(NewSmlSchema, "InvalidName")
    ELSE IF ~SmlElement_assureElementNames(sRootElement,
                                           {"EnumType", "Struct", "Attribute", "Element"})
    THEN Raise(NewSmlSchema, "InvalidElementName")
    ELSE IF ~SmlElement_assureAttributeNames(sRootElement, {"RootElement"})
    THEN Raise(NewSmlSchema, "InvalidAttributeName")
    ELSE Only({LoadRootElement(defined,
                               SmlElement_optionalAttribute(sRootElement, "RootElement")) :
               defined \in {SmlSchemaLoader_loadDefinitions(NewSmlSchema, sRootElement, 0)}})

\* A parse that returns the loader's schema also when something was raised.
ParseBestEffort(sRootElement) ==
    Only({[returned |-> TRUE, err |-> "", cause |-> r.err, schema |-> r.s] :
          r \in {ParseBody(sRootElement)}})

\* parse(content): the schema is returned when nothing was raised; what was
\* raised is wrapped in one error, with the loader's schema left behind.
SmlSchemaLoader_parse(sRootElement) ==
    Only({[returned |-> r.err = "",
           err      |-> IF r.err = "" THEN "" ELSE "CouldNotParseSchema",
           cause    |-> r.err,
           schema   |-> r.s] :
          r \in {ParseBody(sRootElement)}})

\* SmlDocument.parse(content) of sml.js.  A content is the text of a document:
\* whether the text is a well-formed document, and the tree it is the text of.
SmlDocument_parse(content) ==
    IF content.wellFormed THEN [err |-> "", root |-> content.root]
    ELSE [err |-> "SmlParserError", root |-> content.root]

\* SmlSchema.parse(content): a new SmlSchemaLoader parses the content; what
\* SmlDocument.parse raises is raised in the try block of the loader.
SmlSchema_parse(content) ==
    Only({IF sDocument.err # ""
          THEN [returned |-> FALSE, err |-> "CouldNotParseSchema",
                cause |-> sDocument.err, schema |-> NewSmlSchema]
          ELSE SmlSchemaLoader_parse(sDocument.root) :
          sDocument \in {SmlDocument_parse(content)}})

\* ------------------------------------------------------------------- TsUtil

\* TsUtil.keywords
TsUtil_keywords == {"public", "internal"}

\* TsUtil.getIdentifier(str, startUpperCase)
TsUtil_getIdentifier(str, startUpperCase) ==
    LET firstChar == SubSeq(str, 1, IF Len(str) = 0 THEN 0 ELSE 1)
        cased == (IF startUpperCase THEN ToUpperCase(firstChar) ELSE ToLowerCase(firstChar))
                 \o SubSeq(str, 2, Len(str))
    IN  IF cased \in TsUtil_keywords THEN "_" \o cased ELSE cased

\* ----------------------------------------------------------------- TsLookup

\* The suffixes generateName tries: for (let i=2; i<100; i++)
FirstSuffix == 2
SuffixLimit == 100

\* new TsLookup(startUpperCase).  names is only ever asked whether it holds a
\* name (indexOf) and add never pushes a name twice, so it is kept as a set.
TsLookup_new(startUpperCase) ==
    [names |-> {}, nameLookup |-> <<>>, lookup |-> <<>>,
     startUpperCase |-> startUpperCase]

\* A generateName that tries the suffixes from 1.
GenerateNameFromOne(L, name) ==
    IF Len(name) = 0 THEN [err |-> "InvalidName", ret |-> ""]
    ELSE LET id   == TsUtil_getIdentifier(name, L.startUpperCase)
             free == {i \in 1 .. SuffixLimit - 1 : (id \o ToString(i)) \notin L.names}
         IN  IF id \notin L.names THEN [err |-> "", ret |-> id]
             ELSE IF free # {}
             THEN [err |-> "",
                   ret |-> id \o ToString(CHOOSE i \in free : \A j \in free : i <= j)]
             ELSE [err |-> "TooManyIdenticalNames", ret |-> ""]

\* A generateName that does not ask whether the identifier itself is taken.
GenerateNameUnchecked(L, name) ==
    IF Len(name) = 0 THEN [err |-> "InvalidName", ret |-> ""]
    ELSE [err |-> "", ret |-> TsUtil_getIdentifier(name, L.startUpperCase)]

TsLookup_generateName(L, name) ==
    IF Len(name) = 0 THEN [err |-> "InvalidName", ret |-> ""]
    ELSE LET id   == TsUtil_getIdentifier(name, L.startUpperCase)
             free == {i \in FirstSuffix .. SuffixLimit - 1 :
                         (id \o ToString(i)) \notin L.names}
         IN  IF id \notin L.names THEN [err |-> "", ret |-> id]
             ELSE IF free # {}
             THEN [err |-> "",
                   ret |-> id \o ToString(CHOOSE i \in free : \A j \in free : i <= j)]
             ELSE [err |-> "TooManyIdenticalNames", ret |-> ""]

TsLookup_add(L, source, name, mapped) ==
    IF name \in L.names THEN [err |-> "AlreadyContainsName", ret |-> "", s |-> L]
    ELSE [err |-> "", ret |-> "",
          s |-> [L EXCEPT !.nameLookup = (source :> name) @@ @,
                          !.lookup = (source :> mapped) @@ @,
                          !.names = @ \cup {name}]]

TsLookup_get(L, source) ==
    IF source \notin DOMAIN L.lookup THEN [err |-> "DoesNotContainSource", ret |-> ""]
    ELSE [err |-> "", ret |-> L.lookup[source]]

TsLookup_getName(L, source) ==
    IF source \notin DOMAIN L.nameLookup THEN [err |-> "DoesNotContainSource", ret |-> ""]
    ELSE [err |-> "", ret |-> L.nameLookup[source]]

\* ----------------------------------------------------- IndentedStringBuilder
\* text is kept as the sequence of the lines that "\n" joins.

RECURSIVE Tabs(_)
Tabs(n) == IF n = 0 THEN "" ELSE "\t" \o Tabs(n - 1)

IndentedStringBuilder_new ==
    [text |-> <<>>, indentationLevel |-> 0, firstLineStack |-> <<TRUE>>,
     lastWasEmpty |-> FALSE]

IndentedStringBuilder_appendLine(sb, line) ==
    IF Len(line) = 0 /\ (sb.lastWasEmpty \/ sb.firstLineStack[Len(sb.firstLineStack)])
    THEN sb
    ELSE [sb EXCEPT !.lastWasEmpty = (Len(line) = 0),
                    !.firstLineStack[Len(sb.firstLineStack)] = FALSE,
                    !.text = Append(@, Tabs(sb.indentationLevel) \o line)]

\* for (let lineStr of lineStrings), from the i-th line on
RECURSIVE AppendLinesFrom(_, _, _)
AppendLinesFrom(sb, lineStrings, i) ==
    IF i > Len(lineStrings) THEN sb
    ELSE Only({AppendLinesFrom(next, lineStrings, i + 1) :
               next \in {IndentedStringBuilder_appendLine(sb, lineStrings[i])}})

\* appendLines(lines): the text of no line splits into one empty line
IndentedStringBuilder_appendLines(sb, lines) ==
    AppendLinesFrom(sb, IF lines = <<>> THEN <<"">> ELSE lines, 1)

IndentedStringBuilder_open(sb, openingLine) ==
    Only({[opened EXCEPT !.indentationLevel = @ + 1,
                         !.firstLineStack = Append(@, TRUE)] :
          opened \in {IndentedStringBuilder_appendLine(sb,
                          openingLine \o (IF openingLine = "" THEN "" ELSE " ") \o "{")}})

\* A close that leaves firstLineStack as it is
CloseKeepsStack(builder) ==
    IndentedStringBuilder_appendLine(
        [builder EXCEPT !.lastWasEmpty = FALSE, !.indentationLevel = @ - 1], "}")

\* close() of a builder that is open, as every close of a generator is
IndentedStringBuilder_close(sb) ==
    Only({[closed EXCEPT !.firstLineStack = SubSeq(@, 1, Len(@) - 1)] :
          closed \in {IndentedStringBuilder_appendLine(
                          [sb EXCEPT !.lastWasEmpty = FALSE,
                                     !.indentationLevel = @ - 1], "}")}})

\* if (this.indentationLevel === 0) { throw new Error("Invalid close") }
InvalidClose(builder) == builder.indentationLevel = 0

\* closeAndOpen(line) of a builder that is open
IndentedStringBuilder_closeAndOpen(builder, line) ==
    Only({[closed EXCEPT !.indentationLevel = @ + 1,
                         !.firstLineStack[Len(closed.firstLineStack)] = TRUE] :
          closed \in {IndentedStringBuilder_appendLine(
                          [builder EXCEPT !.lastWasEmpty = FALSE,
                                          !.indentationLevel = @ - 1],
                          "}" \o " " \o line \o " " \o "{")}})

\* ---------------------------------------------------------------- TsDocument
\* A TsClass or TsEnum is its place in types.  No generator sets the
\* constructor of a class.

TsDocument_new == [imports |-> <<>>, types |-> <<>>]

TsDocument_addImport(doc, imports, from) ==
    [doc EXCEPT !.imports = Append(@, [imports |-> imports, from |-> from])]

\* addClass(header) and addEnum(header): class is "TsClass" or "TsEnum"
TsDocument_addType(doc, class, header) ==
    [doc EXCEPT !.types = Append(@, [class |-> class, header |-> header,
                                      properties |-> <<>>, methods |-> <<>>,
                                      values |-> <<>>])]

\* tsClass.addMethod(header).code. ... : code is the text of the method's code
TsClass_addMethod(doc, tsClass, header, code) ==
    [doc EXCEPT !.types[tsClass].methods = Append(@, [header |-> header, code |-> code])]

TsClass_addProperty(doc, tsClass, line) ==
    [doc EXCEPT !.types[tsClass].properties = Append(@, line)]

RECURSIVE WriteImports(_, _, _)
WriteImports(sb, imports, i) ==
    IF i > Len(imports) THEN sb
    ELSE Only({WriteImports(next, imports, i + 1) :
               next \in {IndentedStringBuilder_appendLine(sb,
                             "import { " \o imports[i].imports \o " } from \""
                             \o imports[i].from \o "\"")}})

RECURSIVE WriteMethods(_, _, _)
WriteMethods(sb, methods, i) ==
    IF i > Len(methods) THEN sb
    ELSE Only({WriteMethods(next, methods, i + 1) :
               next \in {IndentedStringBuilder_close(
                             IndentedStringBuilder_appendLines(
                                 IndentedStringBuilder_open(
                                     IndentedStringBuilder_appendLine(sb, ""),
                                     methods[i].header),
                                 methods[i].code))}})

RECURSIVE WriteEnumValues(_, _, _)
WriteEnumValues(sb, values, i) ==
    IF i > Len(values) THEN sb
    ELSE Only({WriteEnumValues(next, values, i + 1) :
               next \in {IndentedStringBuilder_appendLine(sb,
                             values[i] \o (IF i = Len(values) THEN "" ELSE ","))}})

WriteType(sb, tsType) ==
    IF tsType.class = "TsClass"
    THEN IndentedStringBuilder_close(
             WriteMethods(
                 AppendLinesFrom(
                     IndentedStringBuilder_open(
                         IndentedStringBuilder_appendLine(sb, ""), tsType.header),
                     tsType.properties, 1),
                 tsType.methods, 1))
    ELSE IndentedStringBuilder_close(
             WriteEnumValues(
                 IndentedStringBuilder_open(
                     IndentedStringBuilder_appendLine(sb, ""), tsType.header),
                 tsType.values, 1))

RECURSIVE WriteTypes(_, _, _)
WriteTypes(sb, types, i) ==
    IF i > Len(types) THEN sb
    ELSE Only({WriteTypes(next, types, i + 1) : next \in {WriteType(sb, types[i])}})

\* toString(): the lines of the text
TsDocument_toString(doc) ==
    WriteTypes(
        WriteImports(
            IndentedStringBuilder_appendLine(
                IndentedStringBuilder_appendLine(IndentedStringBuilder_new,
                    "// This document was generated. Do not modify. Changes might be overwritten."),
                ""),
            doc.imports, 1),
        doc.types, 1).text

\* ---------------------------------------------------------- SmlSchemaCodeGen
\* The generator at work is G: err is the error raised, "" while none was;
\* document, typeLookup and utilsClass are the fields of the object, allocated
\* the history of typeLookup.  An entity of the schema is looked up as the
\* pair of its namespace and its place in it.

\* TsUtil.escapeString(str) and TsUtil.escapeStrings(strings)
TsUtil_escapeString(str) == "\"" \o str \o "\""

RECURSIVE JoinEscaped(_, _)
JoinEscaped(strings, i) ==
    IF i > Len(strings) THEN ""
    ELSE (IF i = 1 THEN "" ELSE ", ") \o TsUtil_escapeString(strings[i])
         \o JoinEscaped(strings, i + 1)

TsUtil_escapeStrings(strings) == JoinEscaped(strings, 1)

\* new SmlSchemaCodeGen(schema): the fields beside typeLookup.  object counts
\* the generators made, generated is what generate() returned so far, of
\* every generator: the generator, the error raised and the lines of the text.
SmlSchemaCodeGen_new ==
    [object |-> 1, document |-> TsDocument_new, utilsClass |-> 0, generated |-> <<>>]

GenRaise(G, err) == [G EXCEPT !.err = err]

\* allocated after generateName has returned name from the lookup L
Allocated(A, L, name) ==
    [returned |-> A.returned \cup {name},
     repeated |-> A.repeated \/ name \in A.returned,
     paired   |-> A.paired /\ A.returned \subseteq L.names]

\* name = typeLookup.generateName(base); document.addClass or addEnum of the
\* header with the name; typeLookup.add(source, name, the new type)
Declare(G, source, base, class, header) ==
    Only({IF name.err # "" THEN GenRaise(G, name.err)
          ELSE Only({[G EXCEPT !.err = added.err,
                               !.typeLookup = added.s,
                               !.allocated = Allocated(@, G.typeLookup, name.ret),
                               !.document = TsDocument_addType(@, class,
                                                header \o name.ret)] :
                     added \in {TsLookup_add(G.typeLookup, source, name.ret,
                                             Len(G.document.types) + 1)}}) :
          name \in {TsLookup_generateName(G.typeLookup, base)}})

\* What the code of a property is made of; err when making it raised
PropertyCode(typeName, initialization, load) ==
    [err |-> "", typeName |-> typeName, initialization |-> initialization, load |-> load]

NoPropertyCode(err) ==
    [err |-> err, typeName |-> "", initialization |-> "", load |-> ""]

SmlSchemaCodeGen_getPredefinedTypeString(predefinedType) ==
    CASE predefinedType = "Bool"     -> [err |-> "", ret |-> "boolean"]
      [] predefinedType = "Int"      -> [err |-> "", ret |-> "number"]
      [] predefinedType = "UInt"     -> [err |-> "", ret |-> "number"]
      [] predefinedType = "Number"   -> [err |-> "", ret |-> "number"]
      [] predefinedType = "String"   -> [err |-> "", ret |-> "string"]
      [] predefinedType = "DateTime" -> [err |-> "", ret |-> "Date"]
      [] OTHER -> [err |-> "Todo", ret |-> ""]

SmlSchemaCodeGen_getPredefinedTypeInitialization(predefinedType) ==
    CASE predefinedType = "Bool"     -> [err |-> "", ret |-> "false"]
      [] predefinedType = "Int"      -> [err |-> "", ret |-> "0"]
      [] predefinedType = "UInt"     -> [err |-> "", ret |-> "0"]
      [] predefinedType = "Number"   -> [err |-> "", ret |-> "0.0"]
      [] predefinedType = "String"   -> [err |-> "", ret |-> "\"\""]
      [] predefinedType = "DateTime" -> [err |-> "", ret |-> "new Date()"]
      [] OTHER -> [err |-> "Todo", ret |-> ""]

\* getValueTypeInitialization(valueTypeDef, typeName): every value type is an
\* enum; getIdentifier of values[0] of no values raises a TypeError
SmlSchemaCodeGen_getValueTypeInitialization(S, valueTypeDef, typeName) ==
    IF S.valueTypeDefs[valueTypeDef].values = <<>> THEN [err |-> "TypeError", ret |-> ""]
    ELSE [err |-> "",
          ret |-> typeName \o "."
                  \o TsUtil_getIdentifier(S.valueTypeDefs[valueTypeDef].values[1], TRUE)]

\* typeName and initialization of a base: of a predefined type, or of the
\* value type or struct that source is, looked up in typeLookup
BaseCode(G, S, predefinedType, source) ==
    IF predefinedType # NoPredefinedType
    THEN Only({IF typeName.err # "" THEN NoPropertyCode(typeName.err)
               ELSE PropertyCode(typeName.ret,
                        SmlSchemaCodeGen_getPredefinedTypeInitialization(predefinedType).ret,
                        "") :
               typeName \in {SmlSchemaCodeGen_getPredefinedTypeString(predefinedType)}})
    ELSE Only({IF typeName.err # "" THEN NoPropertyCode(typeName.err)
               ELSE IF source[1] = "structDefs"
               THEN PropertyCode(typeName.ret, "new " \o typeName.ret \o "()", "")
               ELSE Only({IF initialization.err # "" THEN NoPropertyCode(initialization.err)
                          ELSE PropertyCode(typeName.ret, initialization.ret, "") :
                          initialization \in
                              {SmlSchemaCodeGen_getValueTypeInitialization(S, source[2],
                                                                           typeName.ret)}}) :
               typeName \in {TsLookup_getName(G.typeLookup, source)}})

\* The load code of getAttributeDataTypePropertyCode
LoadCode(dataType, elementalTypeName) ==
    IF dataType.predefinedType # NoPredefinedType
    THEN [err |-> "",
          ret |-> "sCurAttribute.as"
                  \o (IF SsAttributeDataType_isArray(dataType)
                      THEN (IF dataType.nullable THEN "Nullable" ELSE "")
                           \o SsPredefinedTypeUtil_getPredefinedTypeString(
                                  dataType.predefinedType).ret
                           \o "Array("
                           \o (IF SsRange_isRepeatedPlus(dataType.arrayRange[1]) THEN ""
                               ELSE NumberToString(dataType.arrayRange[1].min) \o ", "
                                    \o NumberToString(dataType.arrayRange[1].max))
                           \o ")"
                      ELSE SsPredefinedTypeUtil_getPredefinedTypeString(
                               dataType.predefinedType).ret \o "()")]
    ELSE IF dataType.valueTypeDef # 0 /\ ~SsAttributeDataType_isArray(dataType)
    THEN [err |-> "", ret |-> "ValueTypeUtils.as" \o elementalTypeName \o "(sCurAttribute)"]
    ELSE [err |-> "Todo", ret |-> ""]

\* A type name that admits null once more whenever the entry is optional,
\* whether or not the type of the data type admits it already
PropertyTypeNameForcedAlways(dataType, elementalTypeName, forceNullable, asArray) ==
    Only({IF asArray THEN "(" \o typeName \o ")[]" ELSE typeName :
          typeName \in
            {(IF dataType.nullable
              THEN (IF SsAttributeDataType_isArray(dataType)
                    THEN "(" \o elementalTypeName \o " | null" \o ")[]"
                    ELSE elementalTypeName \o " | null")
              ELSE (IF SsAttributeDataType_isArray(dataType)
                    THEN elementalTypeName \o "[]" ELSE elementalTypeName))
             \o (IF dataType.arrayNullable THEN " | null" ELSE "")
             \o (IF forceNullable THEN " | null" ELSE "")}})

\* The type name of getAttributeDataTypePropertyCode
PropertyTypeName(dataType, elementalTypeName, forceNullable, asArray) ==
    Only({IF asArray THEN "(" \o typeName \o ")[]" ELSE typeName :
          typeName \in
            {(IF dataType.nullable
              THEN (IF SsAttributeDataType_isArray(dataType)
                    THEN "(" \o elementalTypeName \o " | null" \o ")[]"
                    ELSE elementalTypeName \o " | null")
              ELSE (IF SsAttributeDataType_isArray(dataType)
                    THEN elementalTypeName \o "[]" ELSE elementalTypeName))
             \o (IF dataType.arrayNullable
                    \/ (forceNullable
                        /\ ((dataType.nullable /\ SsAttributeDataType_isArray(dataType))
                            \/ ~dataType.nullable))
                 THEN " | null" ELSE "")}})

\* The initialization of getAttributeDataTypePropertyCode
PropertyInitialization(dataType, elementalInitialization, forceNullable, asArray) ==
    IF asArray THEN "[]"
    ELSE IF (~SsAttributeDataType_isArray(dataType) /\ dataType.nullable)
            \/ (SsAttributeDataType_isArray(dataType) /\ dataType.arrayNullable)
            \/ forceNullable
    THEN "null"
    ELSE IF SsAttributeDataType_isArray(dataType) THEN "[]"
    ELSE elementalInitialization

SmlSchemaCodeGen_getAttributeDataTypePropertyCode(G, S, dataType, forceNullable, asArray) ==
    Only({IF elemental.err # "" THEN elemental
          ELSE Only({IF load.err # "" THEN NoPropertyCode(load.err)
                     ELSE PropertyCode(
                              PropertyTypeName(dataType, elemental.typeName,
                                               forceNullable, asArray),
                              PropertyInitialization(dataType, elemental.initialization,
                                                     forceNullable, asArray),
                              load.ret) :
                     load \in {LoadCode(dataType, elemental.typeName)}}) :
          elemental \in
              {BaseCode(G, S, dataType.predefinedType,
                        IF dataType.valueTypeDef # 0
                        THEN <<"valueTypeDefs", dataType.valueTypeDef>>
                        ELSE <<"structDefs", dataType.structDef>>)}})

\* The lines an entry of a content adds to sbLoad: name is the property,
\* what is "Element" or "Attribute", type the type of sCur<what>, nameStr
\* the escaped name and load the code that loads one
LoadLines(sbLoad, occurrence, name, what, nameStr, load) ==
    IF SsRange_isRequired(occurrence)
    THEN IndentedStringBuilder_close(
             IndentedStringBuilder_appendLine(
                 IndentedStringBuilder_appendLine(
                     IndentedStringBuilder_open(sbLoad, ""),
                     "let sCur" \o what \o ": Sml" \o what \o " = sElement.required"
                         \o what \o "(" \o nameStr \o ")"),
                 "element." \o name \o " = " \o load))
    ELSE IF SsRange_isOptional(occurrence)
    THEN IndentedStringBuilder_close(
             IndentedStringBuilder_close(
                 IndentedStringBuilder_appendLine(
                     IndentedStringBuilder_open(
                         IndentedStringBuilder_appendLine(
                             IndentedStringBuilder_open(sbLoad, ""),
                             "let sCur" \o what \o ": Sml" \o what
                                 \o " | null = sElement.optional" \o what
                                 \o "(" \o nameStr \o ")"),
                         "if (sCur" \o what \o " !== null)"),
                     "element." \o name \o " = " \o load)))
    ELSE IndentedStringBuilder_close(
             IndentedStringBuilder_close(
                 IndentedStringBuilder_appendLine(
                     IndentedStringBuilder_open(
                         IndentedStringBuilder_open(sbLoad, ""),
                         "for (let sCur" \o what \o " of sElement."
                             \o (IF SsRange_isRepeatedPlus(occurrence)
                                 THEN "oneOrMoreAttributes" ELSE "attributes")
                             \o "(" \o nameStr \o "))"),
                     "element." \o name \o ".push(" \o load \o ")")))

\* An occurrence that is none of required, optional, repeated: throw new Error()
NoOccurrence(occurrence) ==
    ~(SsRange_isRequired(occurrence) \/ SsRange_isOptional(occurrence)
      \/ SsRange_isRepeatedPlus(occurrence) \/ SsRange_isRepeatedStar(occurrence))

\* The name of the property of an entry
PropertyName(name, occurrence) ==
    TsUtil_getIdentifier(
        name \o (IF SsRange_isRepeatedPlus(occurrence) \/ SsRange_isRepeatedStar(occurrence)
                 THEN "List" ELSE ""), FALSE)

\* generateUnorderedElement(unorderedElement, elementClass, sbLoad): X is the
\* generator g with the builder sb
SmlSchemaCodeGen_generateUnorderedElement(X, S, unorderedElement, elementClass) ==
    Only({IF elementalTypeName.err # ""
          THEN [X EXCEPT !.g = GenRaise(@, elementalTypeName.err)]
          ELSE IF NoOccurrence(unorderedElement.occurrence)
          THEN [X EXCEPT !.g = GenRaise(@, "Error")]
          ELSE [g  |-> [X.g EXCEPT !.document = TsClass_addProperty(@, elementClass,
                           PropertyName(S.elementDefs[unorderedElement.elementDef].name,
                                        unorderedElement.occurrence)
                           \o ": "
                           \o (IF SsRange_isRepeatedPlus(unorderedElement.occurrence)
                                  \/ SsRange_isRepeatedStar(unorderedElement.occurrence)
                               THEN "(" \o elementalTypeName.ret \o ")[]" \o " = " \o "[]"
                               ELSE IF SsRange_isOptional(unorderedElement.occurrence)
                               THEN elementalTypeName.ret \o " | null" \o " = " \o "null"
                               ELSE elementalTypeName.ret \o " = " \o "new "
                                    \o elementalTypeName.ret \o "()"))],
                sb |-> LoadLines(X.sb, unorderedElement.occurrence,
                           PropertyName(S.elementDefs[unorderedElement.elementDef].name,
                                        unorderedElement.occurrence),
                           "Element",
                           TsUtil_escapeString(
                               S.elementDefs[unorderedElement.elementDef].name),
                           elementalTypeName.ret \o ".load(sCurElement)")] :
          elementalTypeName \in
              {TsLookup_getName(X.g.typeLookup,
                                <<"elementDefs", unorderedElement.elementDef>>)}})

\* generateUnorderedAttribute(unorderedAttribute, elementClass, sbLoad)
SmlSchemaCodeGen_generateUnorderedAttribute(X, S, unorderedAttribute, elementClass) ==
    Only({IF dataType.err # "" THEN [X EXCEPT !.g = GenRaise(@, dataType.err)]
          ELSE Only({IF code.err # "" THEN [X EXCEPT !.g = GenRaise(@, code.err)]
                     ELSE IF NoOccurrence(unorderedAttribute.occurrence)
                     THEN [X EXCEPT !.g = GenRaise(@, "Error")]
                     ELSE [g  |-> [X.g EXCEPT !.document =
                                      TsClass_addProperty(@, elementClass,
                                          PropertyName(
                                              S.attributeDefs[
                                                  unorderedAttribute.attributeDef].name,
                                              unorderedAttribute.occurrence)
                                          \o ": " \o code.typeName \o " = "
                                          \o code.initialization)],
                           sb |-> LoadLines(X.sb, unorderedAttribute.occurrence,
                                      PropertyName(
                                          S.attributeDefs[
                                              unorderedAttribute.attributeDef].name,
                                          unorderedAttribute.occurrence),
                                      "Attribute",
                                      TsUtil_escapeString(
                                          S.attributeDefs[
                                              unorderedAttribute.attributeDef].name),
                                      code.load)] :
                     code \in {SmlSchemaCodeGen_getAttributeDataTypePropertyCode(X.g, S,
                                   S.dataTypes[dataType.ret],
                                   SsRange_isOptional(unorderedAttribute.occurrence),
                                   SsRange_isRepeatedPlus(unorderedAttribute.occurrence)
                                   \/ SsRange_isRepeatedStar(
                                          unorderedAttribute.occurrence))}}) :
          dataType \in {SsAttributeDef_getDataType(S, unorderedAttribute.attributeDef)}})

\* for (let unorderedElement of unorderedContent.unorderedElements)
RECURSIVE ForUnorderedElements(_, _, _, _, _)
ForUnorderedElements(X, S, unorderedElements, i, elementClass) ==
    IF X.g.err # "" \/ i > Len(unorderedElements) THEN X
    ELSE Only({ForUnorderedElements(next, S, unorderedElements, i + 1, elementClass) :
               next \in {SmlSchemaCodeGen_generateUnorderedElement(
                             X, S, unorderedElements[i], elementClass)}})

\* for (let unorderedAttribute of unorderedContent.unorderedAttributes)
RECURSIVE ForUnorderedAttributes(_, _, _, _, _)
ForUnorderedAttributes(X, S, unorderedAttributes, i, elementClass) ==
    IF X.g.err # "" \/ i > Len(unorderedAttributes) THEN X
    ELSE Only({ForUnorderedAttributes(next, S, unorderedAttributes, i + 1, elementClass) :
               next \in {SmlSchemaCodeGen_generateUnorderedAttribute(
                             X, S, unorderedAttributes[i], elementClass)}})

\* The names of the entries of a content
EntryNames(entries) == [i \in DOMAIN entries |-> entries[i].name]

\* sbLoad of generateElementDef before the entries are generated
AssureLines(unorderedContent) ==
    IndentedStringBuilder_appendLine(
        IndentedStringBuilder_appendLine(IndentedStringBuilder_new,
            IF Len(unorderedContent.elements) > 0
            THEN "sElement.assureElementNames(["
                 \o TsUtil_escapeStrings(EntryNames(unorderedContent.elements)) \o "])"
            ELSE "sElement.assureNoElements()"),
        IF Len(unorderedContent.attributes) > 0
        THEN "sElement.assureAttributeNames(["
             \o TsUtil_escapeStrings(EntryNames(unorderedContent.attributes)) \o "])"
        ELSE "sElement.assureNoAttributes()")

\* The part of generateElementDef after generateElements(elementDef.definitions)
GenerateContent(G, S, elementDef, isRootElement, elementClass, name) ==
    Only({IF X.g.err # "" THEN X.g
          ELSE [X.g EXCEPT !.document =
                   Only({IF isRootElement
                         THEN TsClass_addMethod(loads, elementClass,
                                  "static parse(content: string): " \o name,
                                  <<"let sDocument: SmlDocument = SmlDocument.parse(content)",
                                    "return " \o name \o ".load(sDocument.root)">>)
                         ELSE loads :
                         loads \in
                           {TsClass_addMethod(X.g.document, elementClass,
                                "static load(sElement: SmlElement): " \o name,
                                IndentedStringBuilder_appendLine(
                                    IndentedStringBuilder_appendLines(
                                        IndentedStringBuilder_appendLine(
                                            IndentedStringBuilder_appendLine(
                                                IndentedStringBuilder_new,
                                                "sElement.assureName("
                                                \o TsUtil_escapeString(
                                                       S.elementDefs[elementDef].name)
                                                \o ")"),
                                            "let element: " \o name \o " = new "
                                            \o name \o "()"),
                                        X.sb.text),
                                    "return element").text)}})] :
          X \in {IF S.elementDefs[elementDef].content = 0
                 THEN [g |-> G, sb |-> IndentedStringBuilder_new]
                 ELSE ForUnorderedAttributes(
                          ForUnorderedElements(
                              [g  |-> G,
                               sb |-> AssureLines(
                                          S.contents[S.elementDefs[elementDef].content])],
                              S, S.contents[S.elementDefs[elementDef].content].elements,
                              1, elementClass),
                          S, S.contents[S.elementDefs[elementDef].content].attributes,
                          1, elementClass)}})

RECURSIVE SmlSchemaCodeGen_generateElementDef(_, _, _)
RECURSIVE ForElementDefs(_, _, _, _)

\* generateElements(definitions)
SmlSchemaCodeGen_generateElements(G, S, definitions) ==
    ForElementDefs(G, S, Map(S, "elementDefs", definitions), 1)

\* for (let elementDef of definitions.elementDefs.values)
ForElementDefs(G, S, values, i) ==
    IF G.err # "" \/ i > Len(values) THEN G
    ELSE Only({ForElementDefs(next, S, values, i + 1) :
               next \in {SmlSchemaCodeGen_generateElementDef(G, S, values[i])}})

SmlSchemaCodeGen_generateElementDef(G, S, elementDef) ==
    Only({IF rootElement.err # "" THEN GenRaise(G, rootElement.err)
          ELSE Only({IF declared.err # "" THEN declared
                     ELSE Only({IF nested.err # "" THEN nested
                                ELSE GenerateContent(nested, S, elementDef,
                                         rootElement.ret = elementDef,
                                         Len(declared.document.types),
                                         declared.typeLookup.nameLookup[
                                             <<"elementDefs", elementDef>>]) :
                                nested \in {SmlSchemaCodeGen_generateElements(
                                                declared, S, elementDef)}}) :
                     declared \in
                         {Declare(G, <<"elementDefs", elementDef>>,
                              S.elementDefs[elementDef].name
                              \o (IF rootElement.ret = elementDef THEN "Document"
                                  ELSE "Element"),
                              "TsClass", "export class ")}}) :
          rootElement \in {SmlSchema_getRootElement(S)}})

\* generateValueType(valueTypeDef, definitions)
SmlSchemaCodeGen_generateValueType(G, S, valueTypeDef) ==
    Only({IF declared.err # "" THEN declared
          ELSE [declared EXCEPT
                   !.document.types[Len(declared.document.types)].values =
                       [i \in DOMAIN S.valueTypeDefs[valueTypeDef].values |->
                           TsUtil_getIdentifier(S.valueTypeDefs[valueTypeDef].values[i],
                                                TRUE)],
                   !.document.types[declared.utilsClass].methods =
                       Append(@,
                           [header |-> "static as"
                                \o declared.typeLookup.nameLookup[
                                       <<"valueTypeDefs", valueTypeDef>>]
                                \o "(sAttribute: SmlAttribute): "
                                \o declared.typeLookup.nameLookup[
                                       <<"valueTypeDefs", valueTypeDef>>],
                            code |-> <<"return sAttribute.assureValueCount(1).getEnum(["
                                       \o TsUtil_escapeStrings(
                                              S.valueTypeDefs[valueTypeDef].values)
                                       \o "])">>])] :
          declared \in {Declare(G, <<"valueTypeDefs", valueTypeDef>>,
                            S.valueTypeDefs[valueTypeDef].name \o "Enum",
                            "TsEnum", "export enum ")}})

RECURSIVE SmlSchemaCodeGen_generateValueTypes(_, _, _)
RECURSIVE ForValueTypeDefs(_, _, _, _)
RECURSIVE ForValueTypesOfElements(_, _, _, _)

\* for (let valueTypeDef of definitions.valueTypeDefs.values)
ForValueTypeDefs(G, S, values, i) ==
    IF G.err # "" \/ i > Len(values) THEN G
    ELSE Only({ForValueTypeDefs(next, S, values, i + 1) :
               next \in {SmlSchemaCodeGen_generateValueType(G, S, values[i])}})

\* for (let elementDef of definitions.elementDefs.values) of generateValueTypes
ForValueTypesOfElements(G, S, values, i) ==
    IF G.err # "" \/ i > Len(values) THEN G
    ELSE Only({ForValueTypesOfElements(next, S, values, i + 1) :
               next \in {SmlSchemaCodeGen_generateValueTypes(G, S, values[i])}})

SmlSchemaCodeGen_generateValueTypes(G, S, definitions) ==
    ForValueTypesOfElements(
        ForValueTypeDefs(G, S, Map(S, "valueTypeDefs", definitions), 1),
        S, Map(S, "elementDefs", definitions), 1)

\* generateStructValue(value, structClass)
SmlSchemaCodeGen_generateStructValue(G, S, value, structClass) ==
    Only({IF code.err # "" THEN GenRaise(G, code.err)
          ELSE [G EXCEPT !.document = TsClass_addProperty(@, structClass,
                    TsUtil_getIdentifier(value.name, FALSE) \o ": " \o code.typeName
                    \o " = " \o code.initialization)] :
          code \in {BaseCode(G, S, value.predefinedType,
                             <<"valueTypeDefs", value.valueTypeDef>>)}})

\* for (let value of structDef.values)
RECURSIVE ForStructValues(_, _, _, _, _)
ForStructValues(G, S, values, i, structClass) ==
    IF G.err # "" \/ i > Len(values) THEN G
    ELSE Only({ForStructValues(next, S, values, i + 1, structClass) :
               next \in {SmlSchemaCodeGen_generateStructValue(G, S, values[i],
                                                              structClass)}})

\* generateStruct(structDef, definitions)
SmlSchemaCodeGen_generateStruct(G, S, structDef) ==
    Only({IF declared.err # "" THEN declared
          ELSE ForStructValues(declared, S, S.structDefs[structDef].values, 1,
                               Len(declared.document.types)) :
          declared \in {Declare(G, <<"structDefs", structDef>>,
                            S.structDefs[structDef].name \o "Struct",
                            "TsClass", "export class ")}})

RECURSIVE SmlSchemaCodeGen_generateStructs(_, _, _)
RECURSIVE ForStructDefs(_, _, _, _)
RECURSIVE ForStructsOfElements(_, _, _, _)

\* for (let structDef of definitions.structDefs.values)
ForStructDefs(G, S, values, i) ==
    IF G.err # "" \/ i > Len(values) THEN G
    ELSE Only({ForStructDefs(next, S, values, i + 1) :
               next \in {SmlSchemaCodeGen_generateStruct(G, S, values[i])}})

\* for (let elementDef of definitions.elementDefs.values) of generateStructs
ForStructsOfElements(G, S, values, i) ==
    IF G.err # "" \/ i > Len(values) THEN G
    ELSE Only({ForStructsOfElements(next, S, values, i + 1) :
               next \in {SmlSchemaCodeGen_generateStructs(G, S, values[i])}})

SmlSchemaCodeGen_generateStructs(G, S, definitions) ==
    ForStructsOfElements(
        ForStructDefs(G, S, Map(S, "structDefs", definitions), 1),
        S, Map(S, "elementDefs", definitions), 1)

\* generateValueTypeUtilsClass()
SmlSchemaCodeGen_generateValueTypeUtilsClass(G) ==
    [G EXCEPT !.document = TsDocument_addType(@, "TsClass", "abstract class ValueTypeUtils"),
              !.utilsClass = Len(G.document.types) + 1]

\* generate() up to the return: the generator after it
SmlSchemaCodeGen_generate(G, S) ==
    SmlSchemaCodeGen_generateElements(
        SmlSchemaCodeGen_generateStructs(
            SmlSchemaCodeGen_generateValueTypes(
                SmlSchemaCodeGen_generateValueTypeUtilsClass(
                    [G EXCEPT !.document =
                        TsDocument_addImport(@, "SmlDocument, SmlElement, SmlAttribute",
                                             "./sml.js")]),
                S, 0),
            S, 0),
        S, 0)

\* ------------------------------------------------------------------ inputs

EnumValueLists == {<<"Red", "Green">>}

\* Label lists given to addEnum by a caller that does not check them
LabelLists == {<<"Red", "Green">>, <<"Red", "Red">>}

\* Lines, texts of lines and opening lines written to a builder; none holds
\* a brace or a tab of its own
SomeLines == {"", "a"}
SomeTexts == {<<>>, <<"a", "", "", "b">>}
SomeOpeningLines == {"", "if (x)"}
SomeClosingLines == {"else"}

\* predefined types given to struct values and data types
SomePredefinedTypes == {"Int"}

Occurrences ==
    {SsRange_required, SsRange_optional, SsRange_repeatedPlus, SsRange_repeatedStar}

ArrayRanges == {<<>>, <<SsRange_fixed(2)>>, <<SsRange_repeatedStar>>}

\* Names of definitions a data type text may mean: "Int" is a predefined name
TextNames == {"A", "Int"}

\* Array ranges of each form: none, a size, bounds, no upper bound, no bounds
TextArrayRanges ==
    {<<>>, <<SsRange_fixed(2)>>, <<SsRange_new(1, 3).r>>, <<SsRange_repeatedPlus>>,
     <<SsRange_repeatedStar>>}

\* Data type texts given to loadDataType besides those toString() returned
TypeTexts == {"A", "int", "Int?", "B", "A[2]?", "A[3..1]", "A]"}

\* ------------------------------------------------------- schema documents
\* The nodes of a schema text in the grammar the loader reads.

NameAttribute(name) == [name |-> "Name", values |-> <<name>>]

EnumTypeNode(name, values) ==
    [name |-> "EnumType", elements |-> <<>>,
     attributes |-> <<NameAttribute(name), [name |-> "Values", values |-> values]>>]

\* values: the three texts of each Value attribute
StructNode(name, values) ==
    [name |-> "Struct", elements |-> <<>>,
     attributes |-> <<NameAttribute(name)>>
                    \o [i \in DOMAIN values |-> [name |-> "Value", values |-> values[i]]]]

AttributeNode(name, dataType) ==
    [name |-> "Attribute", elements |-> <<>>,
     attributes |-> <<NameAttribute(name), [name |-> "DataType", values |-> <<dataType>>]>>]

\* entries: the Element and Attribute attributes of the content
UnorderedContentNode(entries) ==
    [name |-> "UnorderedContent", elements |-> <<>>, attributes |-> entries]

\* nested: the definitions of the Definitions child, <<>> for no such child;
\* content: the content children
ElementNode(name, nested, content) ==
    [name |-> "Element", attributes |-> <<NameAttribute(name)>>,
     elements |-> (IF nested = <<>> THEN <<>>
                   ELSE <<[name |-> "Definitions", attributes |-> <<>>,
                           elements |-> nested]>>) \o content]

\* rootElement: the values of the RootElement attribute, <<>> for none
SchemaNode(children, rootElement) ==
    [name |-> "Schema", elements |-> children,
     attributes |-> IF rootElement = <<>> THEN <<>>
                    ELSE <<[name |-> "RootElement", values |-> rootElement]>>]

SomeEnumTypes == {<<>>, <<EnumTypeNode("Color", <<"Red", "Green">>)>>}

SomeStructs ==
    {<<>>, <<StructNode("Point", << <<"x", "Required", "Number">>,
                                    <<"y", "Optional", "Int?">> >>)>>}

SomeAttributes ==
    {<<>>, <<AttributeNode("Age", "Int")>>, <<AttributeNode("Tags", "String?[0..N]?")>>}

EmptyElement(name) == ElementNode(name, <<>>, <<UnorderedContentNode(<<>>)>>)

\* Element A with a nested element B, a repeated child B and an inline attribute
NestingElement ==
    ElementNode("A", <<EmptyElement("B")>>,
        <<UnorderedContentNode(<<[name |-> "Element", values |-> <<"B", "Repeated*">>],
                                 [name |-> "Attribute",
                                  values |-> <<"Id", "Required", "Int">>]>>)>>)

SomeElements ==
    {<<>>, <<EmptyElement("A")>>, <<NestingElement>>, <<EmptyElement("A"), EmptyElement("B")>>}

SomeRootElements == {<<>>, <<"A">>, <<"B">>}

\* Texts of one enum, of each label list, and one element
EnumContents ==
    {[wellFormed |-> TRUE,
      root |-> SchemaNode(<<EnumTypeNode("Color", values), EmptyElement("A")>>, <<>>)] :
        values \in LabelLists}

\* Texts whose definitions the loader takes: what is left is the root element.
LoadableContents ==
    {[wellFormed |-> TRUE, root |-> SchemaNode(e \o st \o a \o el, r)] :
        e \in SomeEnumTypes, st \in SomeStructs, a \in SomeAttributes,
        el \in SomeElements, r \in SomeRootElements}

\* The names of the top-level Element nodes, and the RootElement values
TopElementNames(sRootElement) ==
    LET top == SmlElement_elements(sRootElement, "Element")
    IN  [i \in DOMAIN top |-> top[i].attributes[1].values[1]]

GivenRootElement(sRootElement) ==
    LET given == SmlElement_attributes(sRootElement, "RootElement")
    IN  IF given = <<>> THEN <<>> ELSE given[1].values

\* Texts that are schemas: the root element is named and is a top-level
\* element, or is not named and there is one top-level element.
ValidContents ==
    {c \in LoadableContents :
        LET top   == TopElementNames(c.root)
            given == GivenRootElement(c.root)
        IN  IF given = <<>> THEN Len(top) = 1
            ELSE \E i \in DOMAIN top : top[i] = given[1]}

Defects ==
    {"tokenizing", "elementName", "attributeName", "noContent", "listContent",
     "valueCount", "duplicate", "undefinedType", "undefinedElement", "invalidRange",
     "arrayOfOptionalStruct", "trailingOptional", "undefinedRoot", "ambiguousRoot"}

AppendChildren(content, children) ==
    [content EXCEPT !.root.elements = @ \o children]

\* A schema text with one defect put into it
Inject(content, defect) ==
    CASE defect = "tokenizing" -> [content EXCEPT !.wellFormed = FALSE]
      [] defect = "elementName" ->
           AppendChildren(content, <<[name |-> "EnumTypeDef", elements |-> <<>>,
                                      attributes |-> <<NameAttribute("E")>>]>>)
      [] defect = "attributeName" ->
           [content EXCEPT !.root.attributes =
                Append(@, [name |-> "Version", values |-> <<"1">>])]
      [] defect = "noContent" ->
           AppendChildren(content, <<ElementNode("C", <<>>, <<>>)>>)
      [] defect = "listContent" ->
           AppendChildren(content,
               <<ElementNode("C", <<>>, <<[name |-> "ListContent", elements |-> <<>>,
                                           attributes |-> <<>>]>>)>>)
      [] defect = "valueCount" ->
           AppendChildren(content, <<StructNode("S", << <<"x", "Required">> >>)>>)
      [] defect = "duplicate" ->
           AppendChildren(content, <<AttributeNode("Dup", "Int"), AttributeNode("Dup", "Bool")>>)
      [] defect = "undefinedType" ->
           AppendChildren(content, <<AttributeNode("U", "Missing")>>)
      [] defect = "undefinedElement" ->
           AppendChildren(content,
               <<ElementNode("C", <<>>,
                     <<UnorderedContentNode(<<[name |-> "Element",
                                               values |-> <<"Zed", "Required">>]>>)>>)>>)
      [] defect = "invalidRange" ->
           AppendChildren(content, <<AttributeNode("R", "Int[3..1]")>>)
      [] defect = "arrayOfOptionalStruct" ->
           AppendChildren(content,
               <<StructNode("Opt", << <<"x", "Optional", "Int">> >>),
                 AttributeNode("Arr", "Opt[2]")>>)
      [] defect = "trailingOptional" ->
           AppendChildren(content,
               <<StructNode("Bad", << <<"x", "Optional", "Int">>,
                                      <<"y", "Required", "Int">> >>)>>)
      [] defect = "undefinedRoot" ->
           [content EXCEPT !.root.attributes =
                <<[name |-> "RootElement", values |-> <<"Zed">>]>>]
      [] defect = "ambiguousRoot" ->
           [AppendChildren(content, <<EmptyElement("C"), EmptyElement("D")>>)
                EXCEPT !.root.attributes = <<>>]

DefectiveContents == {Inject(c, d) : c \in ValidContents, d \in Defects}

RECURSIVE SumLen(_, _)
SumLen(objs, field) ==
    IF objs = <<>> THEN 0 ELSE Len(Head(objs)[field]) + SumLen(Tail(objs), field)

\* The number of objects made so far.
Size(S) ==
    Len(S.valueTypeDefs) + Len(S.structDefs) + Len(S.attributeDefs)
    + Len(S.elementDefs) + Len(S.contents) + Len(S.dataTypes)
    + SumLen(S.structDefs, "values")
    + SumLen(S.contents, "elements") + SumLen(S.contents, "attributes")

\* A call may run when it makes no object or at most max objects exist after.
Room(r, max) == r.err # "" \/ Size(r.s) <= max

NoCall ==
    [op |-> "", err |-> "", ret |-> 0, kind |-> "", scope |-> 0, name |-> "",
     id |-> 0, arg |-> <<>>, str |-> ""]

\* The record of a call: its operation, its outcome r and its arguments.
Call(op, r, kind, scope, name, id, arg) ==
    [op |-> op, err |-> r.err, ret |-> r.ret, kind |-> kind, scope |-> scope,
     name |-> name, id |-> id, arg |-> arg, str |-> ""]

\* The record of a call that returns a string: str is what it returned.
CallStr(op, r, name, arg) ==
    [op |-> op, err |-> r.err, ret |-> 0, kind |-> "", scope |-> 0,
     name |-> name, id |-> 0, arg |-> arg, str |-> r.ret]

\* The schema is still being built: neither serialize() nor generate() has
\* been called.
Building == document = <<>> /\ codeGen.generated = <<>>

\* ------------------------------------------------------------------ actions
\* Each action is one call of the model API; its parameters are the sets its
\* arguments are drawn from.

\* No name has been returned yet.
NothingAllocated == [returned |-> {}, repeated |-> FALSE, paired |-> TRUE]

\* A new schema, and the allocator as SmlSchemaCodeGen makes it.
Init ==
    /\ schema = NewSmlSchema
    /\ last = NoCall
    /\ document = <<>>
    /\ loaded = <<>>
    /\ typeLookup = TsLookup_new(TRUE)
    /\ allocated = NothingAllocated
    /\ codeGen = SmlSchemaCodeGen_new
    /\ stringBuilder = IndentedStringBuilder_new

\* A new allocator of either case convention.
InitLookup ==
    /\ schema = NewSmlSchema
    /\ last = NoCall
    /\ document = <<>>
    /\ loaded = <<>>
    /\ typeLookup \in {TsLookup_new(b) : b \in BOOLEAN}
    /\ allocated = NothingAllocated
    /\ codeGen = SmlSchemaCodeGen_new
    /\ stringBuilder = IndentedStringBuilder_new

\* definitions.addEnum(name, values) on the SsDefinitions of a scope
AddEnum(names, valueLists, max) ==
    /\ Building
    /\ \E scope \in Scopes(schema), name \in names, values \in valueLists :
         LET r == SsDefinitions_addEnum(schema, scope, name, values)
         IN  /\ Room(r, max)
             /\ schema' = r.s
             /\ last' = Call("addEnum", r, "valueTypeDefs", scope, name, 0, values)
    /\ UNCHANGED <<document, loaded, typeLookup, allocated, codeGen, stringBuilder>>

\* definitions.<kind>.add(name) on a list of a scope
Add(kinds, names, max) ==
    /\ Building
    /\ \E kind \in kinds, scope \in Scopes(schema), name \in names :
         LET r == SsDefinitionList_add(schema, kind, scope, name)
         IN  /\ Room(r, max)
             /\ schema' = r.s
             /\ last' = Call("add", r, kind, scope, name, 0, <<>>)
    /\ UNCHANGED <<document, loaded, typeLookup, allocated, codeGen, stringBuilder>>

\* definitions.<kind>.has(name)
Has(kinds, names) ==
    /\ Building
    /\ \E kind \in kinds, scope \in Scopes(schema), name \in names :
         LET b == SsDefinitionList_has(schema, kind, scope, name)
         IN  last' = Call("has", Ok(schema, IF b THEN 1 ELSE 0), kind, scope, name, 0, <<>>)
    /\ UNCHANGED <<schema, document, loaded, typeLookup, allocated, codeGen, stringBuilder>>

\* definitions.<kind>.get(name)
Get(kinds, names) ==
    /\ Building
    /\ \E kind \in kinds, scope \in Scopes(schema), name \in names :
         LET r == SsDefinitionList_get(schema, kind, scope, name)
         IN  last' = Call("get", r, kind, scope, name, 0, <<>>)
    /\ UNCHANGED <<schema, document, loaded, typeLookup, allocated, codeGen, stringBuilder>>

\* structDef.addValue(name, optional, predefinedType, valueTypeDef, nullable)
AddValue(names, nullables, max) ==
    /\ Building
    /\ \E structDef \in DOMAIN schema.structDefs, name \in names,
          optional \in BOOLEAN, nullable \in nullables,
          type \in {<<p, 0>> : p \in SomePredefinedTypes}
                   \cup {<<NoPredefinedType, v>> : v \in DOMAIN schema.valueTypeDefs} :
         LET value == SsStructValue_new(name, optional, type[1], type[2], nullable)
             r == SsStructDef_addValue(schema, structDef, value)
         IN  /\ Room(r, max)
             /\ schema' = r.s
             /\ last' = Call("addValue", r, "", 0, name, structDef, value)
    /\ UNCHANGED <<document, loaded, typeLookup, allocated, codeGen, stringBuilder>>

\* new SsAttributeDataType(predefinedType, valueTypeDef, structDef, nullable,
\* arrayRange, arrayNullable)
NewDataType(nullables, arrayRanges, max) ==
    /\ Building
    /\ \E predefinedType \in SomePredefinedTypes \cup {NoPredefinedType},
          valueTypeDef \in {0} \cup DOMAIN schema.valueTypeDefs,
          structDef \in {0} \cup DOMAIN schema.structDefs,
          nullable \in nullables, arrayRange \in arrayRanges, arrayNullable \in BOOLEAN :
         LET r == SsAttributeDataType_new(schema, predefinedType, valueTypeDef,
                      structDef, nullable, arrayRange, arrayNullable)
         IN  /\ Room(r, max)
             /\ schema' = r.s
             /\ last' = Call("newDataType", r, "", 0, "", 0,
                             [predefinedType |-> predefinedType,
                              valueTypeDef |-> valueTypeDef, structDef |-> structDef,
                              nullable |-> nullable, arrayRange |-> arrayRange,
                              arrayNullable |-> arrayNullable])
    /\ UNCHANGED <<document, loaded, typeLookup, allocated, codeGen, stringBuilder>>

\* new SsAttributeDef(name, definitions), as the loader makes inline attributes
NewAttributeDef(names, max) ==
    /\ Building
    /\ \E scope \in Scopes(schema), name \in names :
         LET r == SsAttributeDef_new(schema, name, scope)
         IN  /\ Room(r, max)
             /\ schema' = r.s
             /\ last' = Call("newAttributeDef", r, "attributeDefs", scope, name, 0, <<>>)
    /\ UNCHANGED <<document, loaded, typeLookup, allocated, codeGen, stringBuilder>>

\* attributeDef.dataType = value
SetDataType ==
    /\ Building
    /\ \E attributeDef \in DOMAIN schema.attributeDefs, value \in DOMAIN schema.dataTypes :
         LET r == SsAttributeDef_setDataType(schema, attributeDef, value)
         IN  /\ schema' = r.s
             /\ last' = Call("setDataType", r, "", 0, "", attributeDef, value)
    /\ UNCHANGED <<document, loaded, typeLookup, allocated, codeGen, stringBuilder>>

\* attributeDef.dataType
GetDataType ==
    /\ Building
    /\ \E attributeDef \in DOMAIN schema.attributeDefs :
         LET r == SsAttributeDef_getDataType(schema, attributeDef)
         IN  last' = Call("getDataType", r, "", 0, "", attributeDef, <<>>)
    /\ UNCHANGED <<schema, document, loaded, typeLookup, allocated, codeGen, stringBuilder>>

\* elementDef.setUnorderedContent()
SetUnorderedContent(max) ==
    /\ Building
    /\ \E elementDef \in DOMAIN schema.elementDefs :
         LET r == SsElementDef_setUnorderedContent(schema, elementDef)
         IN  /\ Room(r, max)
             /\ schema' = r.s
             /\ last' = Call("setUnorderedContent", r, "", 0, "", elementDef, <<>>)
    /\ UNCHANGED <<document, loaded, typeLookup, allocated, codeGen, stringBuilder>>

\* unorderedContent.addElement(elementName, occurrence)
AddElement(names, occurrences, max) ==
    /\ Building
    /\ \E content \in DOMAIN schema.contents, name \in names, occurrence \in occurrences :
         LET r == SsUnorderedContent_addElement(schema, content, name, occurrence)
         IN  /\ Room(r, max)
             /\ schema' = r.s
             /\ last' = Call("addElement", r, "", 0, name, content, occurrence)
    /\ UNCHANGED <<document, loaded, typeLookup, allocated, codeGen, stringBuilder>>

\* unorderedContent.addAttribute(attributeName, occurrence)
AddAttribute(names, occurrences, max) ==
    /\ Building
    /\ \E content \in DOMAIN schema.contents, name \in names, occurrence \in occurrences :
         LET r == SsUnorderedContent_addAttribute(schema, content, name, occurrence)
         IN  /\ Room(r, max)
             /\ schema' = r.s
             /\ last' = Call("addAttribute", r, "", 0, name, content, occurrence)
    /\ UNCHANGED <<document, loaded, typeLookup, allocated, codeGen, stringBuilder>>

\* unorderedContent.addInlineAttribute(inlineAttributeDef, occurrence)
AddInlineAttribute(occurrences, max) ==
    /\ Building
    /\ \E content \in DOMAIN schema.contents,
          attributeDef \in DOMAIN schema.attributeDefs, occurrence \in occurrences :
         LET r == SsUnorderedContent_addInlineAttribute(schema, content, attributeDef, occurrence)
         IN  /\ Room(r, max)
             /\ schema' = r.s
             /\ last' = Call("addInlineAttribute", r, "", 0, "", content,
                             <<attributeDef, occurrence>>)
    /\ UNCHANGED <<document, loaded, typeLookup, allocated, codeGen, stringBuilder>>

\* schema.setRootElementByName(name)
SetRootElementByName(names) ==
    /\ Building
    /\ \E name \in names :
         LET r == SmlSchema_setRootElementByName(schema, name)
         IN  /\ schema' = r.s
             /\ last' = Call("setRootElementByName", r, "", 0, name, 0, <<>>)
    /\ UNCHANGED <<document, loaded, typeLookup, allocated, codeGen, stringBuilder>>

\* schema.setRootElementDefault()
SetRootElementDefault ==
    /\ Building
    /\ LET r == SmlSchema_setRootElementDefault(schema)
       IN  /\ schema' = r.s
           /\ last' = Call("setRootElementDefault", r, "", 0, "", 0, <<>>)
    /\ UNCHANGED <<document, loaded, typeLookup, allocated, codeGen, stringBuilder>>

\* schema.serialize()
Serialize ==
    /\ Building
    /\ LET r == SmlSchemaSerializer_serialize(schema)
       IN  /\ document' = [err |-> r.err, root |-> r.element]
           /\ last' = Call("serialize", [err |-> r.err, ret |-> 0], "", 0, "", 0, <<>>)
    /\ UNCHANGED <<schema, loaded, typeLookup, allocated, codeGen, stringBuilder>>

\* SmlSchema.parse(content), content the text of the serialized document;
\* the text stands for the node tree it was written from.
Parse ==
    /\ document # <<>>
    /\ document.err = ""
    /\ loaded = <<>>
    /\ loaded' = SmlSchemaLoader_parse(document.root)
    /\ last' = Call("parse", [err |-> loaded'.err, ret |-> 0], "", 0, "", 0, <<>>)
    /\ UNCHANGED <<schema, document, typeLookup, allocated, codeGen, stringBuilder>>

\* new SsAttributeDataType(...) with a predefined type of predefinedTypes
NewDataTypeOf(predefinedTypes, nullables, arrayRanges, max) ==
    /\ Building
    /\ schema.dataTypes = <<>>
    /\ \E base \in {<<p, 0, 0>> : p \in predefinedTypes}
                   \cup {<<NoPredefinedType, v, 0>> : v \in DOMAIN schema.valueTypeDefs}
                   \cup {<<NoPredefinedType, 0, st>> : st \in DOMAIN schema.structDefs},
          nullable \in nullables, arrayRange \in arrayRanges, arrayNullable \in BOOLEAN :
         LET r == SsAttributeDataType_new(schema, base[1], base[2], base[3], nullable,
                                          arrayRange, arrayNullable)
         IN  /\ r.err = ""
             /\ Room(r, max)
             /\ schema' = r.s
             /\ last' = Call("newDataType", r, "", 0, "", 0, r.s.dataTypes[r.ret])
    /\ UNCHANGED <<document, loaded, typeLookup, allocated, codeGen, stringBuilder>>

\* dataType.toString()
DataTypeToString ==
    /\ Building
    /\ \E dataType \in DOMAIN schema.dataTypes :
         LET r == SsAttributeDataType_toString(schema, dataType)
         IN  last' = [CallStr("toString", r, "", schema.dataTypes[dataType])
                         EXCEPT !.id = dataType]
    /\ UNCHANGED <<schema, document, loaded, typeLookup, allocated, codeGen, stringBuilder>>

\* SmlSchemaLoader.loadDataType(dataTypeStr, definitions) of a text of texts or
\* of the text toString() has just returned.  The data type it returns is not
\* made part of the schema: arg is the object, id the data type whose text
\* was read, 0 for a text of texts.
LoadDataType(texts) ==
    /\ Building
    /\ \E scope \in Scopes(schema),
          text \in {<<t, 0>> : t \in texts}
                   \cup (IF last.op = "toString" /\ last.err = ""
                         THEN {<<last.str, last.id>>} ELSE {}) :
         LET r == SmlSchemaLoader_loadDataType(schema, text[1], scope)
         IN  last' = [op |-> "loadDataType", err |-> r.err, ret |-> 0, kind |-> "",
                      scope |-> scope, name |-> "", id |-> text[2],
                      arg |-> IF r.err = "" THEN r.s.dataTypes[r.ret] ELSE <<>>,
                      str |-> text[1]]
    /\ UNCHANGED <<schema, document, loaded, typeLookup, allocated, codeGen, stringBuilder>>

\* generate() of the SmlSchemaCodeGen of the schema, called at most max times
Generate(max) ==
    /\ document = <<>>
    /\ Len(codeGen.generated) < max
    /\ \E G \in {SmlSchemaCodeGen_generate(
                     [err |-> "", document |-> codeGen.document,
                      typeLookup |-> typeLookup, allocated |-> allocated,
                      utilsClass |-> codeGen.utilsClass], schema)} :
         /\ codeGen' = [codeGen EXCEPT
                           !.document = G.document,
                           !.utilsClass = G.utilsClass,
                           !.generated =
                               Append(@, [object |-> codeGen.object, err |-> G.err,
                                          text |-> IF G.err # "" THEN <<>>
                                                   ELSE TsDocument_toString(G.document)])]
         /\ typeLookup' = G.typeLookup
         /\ allocated' = G.allocated
         /\ last' = Call("generate", [err |-> G.err, ret |-> 0], "", 0, "",
                         codeGen.object, <<>>)
    /\ UNCHANGED <<schema, document, loaded, stringBuilder>>

\* new SmlSchemaCodeGen(schema), once the generator before it has generated
NewCodeGen ==
    /\ document = <<>>
    /\ codeGen.generated # <<>>
    /\ codeGen.generated[Len(codeGen.generated)].object = codeGen.object
    /\ codeGen' = [SmlSchemaCodeGen_new EXCEPT !.object = codeGen.object + 1,
                                               !.generated = codeGen.generated]
    /\ typeLookup' = TsLookup_new(TRUE)
    /\ allocated' = NothingAllocated
    /\ last' = Call("newCodeGen", [err |-> "", ret |-> 0], "", 0, "",
                    codeGen.object + 1, <<>>)
    /\ UNCHANGED <<schema, document, loaded, stringBuilder>>

\* A call of stringBuilder: its outcome, and the line it was given
BuilderCall(op, err, line) ==
    /\ last' = [NoCall EXCEPT !.op = op, !.err = err, !.name = line]
    /\ UNCHANGED <<schema, document, loaded, typeLookup, allocated, codeGen>>

\* stringBuilder.appendLine(line)
AppendLine(lines) ==
    /\ Len(stringBuilder.text) < MaxLines
    /\ \E line \in lines :
         /\ stringBuilder' = IndentedStringBuilder_appendLine(stringBuilder, line)
         /\ BuilderCall("appendLine", "", line)

\* stringBuilder.appendLines(lines): the lines of a text
AppendLines(texts) ==
    /\ Len(stringBuilder.text) < MaxLines
    /\ \E lines \in texts :
         /\ stringBuilder' = IndentedStringBuilder_appendLines(stringBuilder, lines)
         /\ BuilderCall("appendLines", "", "")

\* stringBuilder.open(openingLine)
Open(openingLines) ==
    /\ Len(stringBuilder.text) < MaxLines
    /\ \E openingLine \in openingLines :
         /\ stringBuilder' = IndentedStringBuilder_open(stringBuilder, openingLine)
         /\ BuilderCall("open", "", openingLine)

\* stringBuilder.close()
Close ==
    /\ Len(stringBuilder.text) < MaxLines
    /\ IF InvalidClose(stringBuilder)
       THEN stringBuilder' = stringBuilder /\ BuilderCall("close", "InvalidClose", "")
       ELSE stringBuilder' = IndentedStringBuilder_close(stringBuilder) /\ BuilderCall("close", "", "")

\* stringBuilder.closeAndOpen(line)
CloseAndOpen(lines) ==
    /\ Len(stringBuilder.text) < MaxLines
    /\ \E line \in lines :
         IF InvalidClose(stringBuilder)
         THEN stringBuilder' = stringBuilder /\ BuilderCall("closeAndOpen", "InvalidClose", line)
         ELSE /\ stringBuilder' = IndentedStringBuilder_closeAndOpen(stringBuilder, line)
              /\ BuilderCall("closeAndOpen", "", line)

\* SmlSchema.parse(content) of a schema text.  A call builds its schema from
\* the text alone, so one call is followed from each start.
ParseContent(contents) ==
    /\ loaded = <<>>
    /\ \E content \in contents :
         /\ loaded' = SmlSchema_parse(content)
         /\ last' = Call("parse", [err |-> loaded'.err, ret |-> 0], "", 0, "", 0, content)
    /\ UNCHANGED <<schema, document, typeLookup, allocated, codeGen, stringBuilder>>

\* typeLookup.generateName(name).  allocated keeps what has been returned,
\* whether a name was returned twice (repeated), and whether every call so far
\* found all names returned before it registered by add (paired).
GenerateName(bases) ==
    /\ \E base \in bases :
         LET r == TsLookup_generateName(typeLookup, base)
         IN  /\ last' = CallStr("generateName", r, base, <<>>)
             /\ allocated' =
                  IF r.err # "" THEN allocated
                  ELSE [returned |-> allocated.returned \cup {r.ret},
                        repeated |-> allocated.repeated \/ r.ret \in allocated.returned,
                        paired   |-> allocated.paired
                                     /\ allocated.returned \subseteq typeLookup.names]
    /\ UNCHANGED <<schema, document, loaded, typeLookup, codeGen, stringBuilder>>

\* typeLookup.add(source, name, mapped), of the name generateName has just
\* returned or of a name the caller chose
LookupAdd(sources, chosen, constructs) ==
    /\ \E source \in sources, mapped \in constructs,
          name \in chosen \cup (IF last.op = "generateName" /\ last.err = ""
                                THEN {last.str} ELSE {}) :
         LET r == TsLookup_add(typeLookup, source, name, mapped)
         IN  /\ typeLookup' = r.s
             /\ last' = CallStr("lookupAdd", r, name, <<source, mapped>>)
    /\ UNCHANGED <<schema, document, loaded, allocated, codeGen, stringBuilder>>

\* typeLookup.get(source)
LookupGet(sources) ==
    /\ \E source \in sources :
         last' = CallStr("lookupGet", TsLookup_get(typeLookup, source), "", <<source>>)
    /\ UNCHANGED <<schema, document, loaded, typeLookup, allocated, codeGen, stringBuilder>>

\* typeLookup.getName(source)
LookupGetName(sources) ==
    /\ \E source \in sources :
         last' = CallStr("lookupGetName", TsLookup_getName(typeLookup, source), "", <<source>>)
    /\ UNCHANGED <<schema, document, loaded, typeLookup, allocated, codeGen, stringBuilder>>

\* The record of a call that makes an SsRange: arg is the range it made.
RangeCall(op, made) ==
    Call(op, [err |-> made.err, ret |-> 0], "", 0, "", 0, made.r)

\* SsRange.required(), optional(), repeatedPlus(), repeatedStar()
RangeRequired ==
    /\ last' = RangeCall("required", SsRange_new(1, 1))
    /\ UNCHANGED <<schema, document, loaded, typeLookup, allocated, codeGen, stringBuilder>>

RangeOptional ==
    /\ last' = RangeCall("optional", SsRange_new(0, 1))
    /\ UNCHANGED <<schema, document, loaded, typeLookup, allocated, codeGen, stringBuilder>>

RangeRepeatedPlus ==
    /\ last' = RangeCall("repeatedPlus", SsRange_new(1, null))
    /\ UNCHANGED <<schema, document, loaded, typeLookup, allocated, codeGen, stringBuilder>>

RangeRepeatedStar ==
    /\ last' = RangeCall("repeatedStar", SsRange_new(null, null))
    /\ UNCHANGED <<schema, document, loaded, typeLookup, allocated, codeGen, stringBuilder>>

\* SsRange.fixed(size)
RangeFixed(sizes) ==
    /\ \E size \in sizes : last' = RangeCall("fixed", SsRange_new(size, size))
    /\ UNCHANGED <<schema, document, loaded, typeLookup, allocated, codeGen, stringBuilder>>

\* new SsRange(min, max)
RangeNew(bounds) ==
    /\ \E min \in bounds, max \in bounds : last' = RangeCall("newRange", SsRange_new(min, max))
    /\ UNCHANGED <<schema, document, loaded, typeLookup, allocated, codeGen, stringBuilder>>

\* ----------------------------------------------------------- specifications

\* The scoped registry: the four namespaces of nested scopes and their lookups.
NextRegistry ==
    \/ AddEnum(Names, EnumValueLists, MaxDefs)
    \/ Add(Kinds, Names, MaxDefs)
    \/ Has(Kinds, Names)
    \/ Get(Kinds, Names)

SpecRegistry == Init /\ [][NextRegistry]_vars

\* The type system: structs, their values, and attribute data types.
NextTypes ==
    \/ AddEnum({"A"}, EnumValueLists, MaxTypeObjects)
    \/ Add({"structDefs"}, {"A"}, MaxTypeObjects)
    \/ AddValue({"A"}, BOOLEAN, MaxTypeObjects)
    \/ NewDataType(BOOLEAN, ArrayRanges, MaxTypeObjects)

SpecTypes == Init /\ [][NextTypes]_vars

\* Attributes and elements: the write-once slots and the content entries.
NextSlots ==
    \/ Add({"attributeDefs", "elementDefs"}, Names, MaxSlotObjects)
    \/ NewAttributeDef(Names, MaxSlotObjects)
    \/ NewDataType({FALSE}, {<<>>}, MaxSlotObjects)
    \/ SetDataType
    \/ GetDataType
    \/ SetUnorderedContent(MaxSlotObjects)
    \/ AddElement(Names, Occurrences, MaxSlotObjects)
    \/ AddAttribute(Names, Occurrences, MaxSlotObjects)
    \/ AddInlineAttribute(Occurrences, MaxSlotObjects)

SpecSlots == Init /\ [][NextSlots]_vars
\* Building a schema of every kind of entity, then serialize() and parse().
NextRoundTrip ==
    \/ AddEnum({"A"}, EnumValueLists, MaxTripObjects)
    \/ Add({"structDefs", "attributeDefs", "elementDefs"}, Names, MaxTripObjects)
    \/ AddValue({"A"}, {FALSE}, MaxTripObjects)
    \/ NewDataType({FALSE}, {<<>>, <<SsRange_repeatedStar>>}, MaxTripObjects)
    \/ NewAttributeDef({"A"}, MaxTripObjects)
    \/ SetDataType
    \/ SetUnorderedContent(MaxTripObjects)
    \/ AddElement({"A"}, {SsRange_required}, MaxTripEntries)
    \/ AddAttribute({"A"}, {SsRange_repeatedPlus}, MaxTripEntries)
    \/ AddInlineAttribute({SsRange_optional}, MaxTripEntries)
    \/ SetRootElementByName(Names)
    \/ SetRootElementDefault
    \/ Serialize
    \/ Parse

SpecRoundTrip == Init /\ [][NextRoundTrip]_vars

\* The name allocator: one base identifier in each case convention ("public"
\* is a keyword when the first letter is lowered), the empty name, and two
\* names a caller registers without asking generateName.
BaseNames == {"public", "Public", ""}
ChosenNames == {"Public2", "_public3"}

NextLookup ==
    \/ GenerateName(BaseNames)
    \/ LookupAdd({"e1"}, ChosenNames, {"c1"})
    \/ LookupGet({"e1"})
    \/ LookupGetName({"e1"})

SpecLookup == InitLookup /\ [][NextLookup]_vars

\* The occurrence algebra: the named constructors and the generic one.
NextRange ==
    \/ RangeRequired
    \/ RangeOptional
    \/ RangeRepeatedPlus
    \/ RangeRepeatedStar
    \/ RangeFixed(0 .. MaxSize)
    \/ RangeNew({null} \cup (0 .. MaxSize))

SpecRange == Init /\ [][NextRange]_vars

\* Data type texts: data types of every form are written by toString() and
\* what was written is read by loadDataType from the scopes of a schema.
NextTypeText ==
    \/ AddEnum(TextNames, EnumValueLists, MaxTextObjects)
    \/ Add({"structDefs", "elementDefs"}, {"A"}, MaxTextObjects)
    \/ NewDataTypeOf(SsPredefinedType, BOOLEAN, TextArrayRanges, MaxTextObjects)
    \/ DataTypeToString
    \/ LoadDataType({})

SpecTypeText == Init /\ [][NextTypeText]_vars

\* Name resolution: data type texts are read from the scopes of schemas whose
\* value types and structs have names of each other and predefined names.
NextResolve ==
    \/ AddEnum(TextNames, EnumValueLists, MaxTextObjects)
    \/ Add({"structDefs", "elementDefs"}, TextNames, MaxTextObjects)
    \/ LoadDataType(TypeTexts)

SpecResolve == Init /\ [][NextResolve]_vars

\* Code generation: a schema of enums, structs and elements with their
\* child elements is built, then generate() is called, again on the same
\* generator and on new ones.
NextCodeGen ==
    \/ AddEnum({"A"}, EnumValueLists, MaxGenObjects)
    \/ Add({"structDefs", "elementDefs"}, Names, MaxGenObjects)
    \/ AddValue({"A"}, {FALSE}, MaxGenObjects)
    \/ SetUnorderedContent(MaxGenObjects)
    \/ AddElement(Names, {SsRange_required, SsRange_repeatedStar}, MaxGenObjects)
    \/ SetRootElementByName(Names)
    \/ Generate(MaxGenerations)
    \/ NewCodeGen

SpecCodeGen == Init /\ [][NextCodeGen]_vars

\* Code generation of structs: an enum and a struct are registered, the struct
\* is given values of a predefined type or of the enum, nullable or not, and
\* generate() is called once.
NextGenStruct ==
    \/ AddEnum({"A"}, EnumValueLists, MaxStructObjects)
    \/ Add({"structDefs"}, {"A"}, MaxStructObjects)
    \/ AddValue(Names, BOOLEAN, MaxStructObjects)
    \/ Generate(1)

SpecGenStruct == Init /\ [][NextGenStruct]_vars

\* The builder: lines, texts and blocks are written to a new
\* IndentedStringBuilder, and blocks are closed, also when none is open.
NextBuilder ==
    \/ AppendLine(SomeLines)
    \/ AppendLines(SomeTexts)
    \/ Open(SomeOpeningLines)
    \/ Close
    \/ CloseAndOpen(SomeClosingLines)

SpecBuilder == Init /\ [][NextBuilder]_vars

\* The mutators that can fail: each is called on a schema of at most
\* MaxMutObjects objects with arguments it takes and arguments it refuses (a
\* name that exists, a name that is not defined, a required value after an
\* optional one, a second data type, a name the allocator holds).
NextMutations ==
    \/ AddEnum({"A"}, EnumValueLists, MaxMutObjects)
    \/ Add({"structDefs", "attributeDefs", "elementDefs"}, {"A"}, MaxMutObjects)
    \/ AddValue({"A"}, {FALSE}, MaxMutObjects)
    \/ NewDataType({FALSE}, {<<>>}, MaxMutObjects)
    \/ SetDataType
    \/ SetUnorderedContent(MaxMutObjects)
    \/ AddElement(Names, {SsRange_required}, MaxMutObjects)
    \/ AddAttribute(Names, {SsRange_required}, MaxMutObjects)
    \/ AddInlineAttribute({SsRange_optional}, MaxMutObjects)
    \/ SetRootElementByName(Names)
    \/ LookupAdd({"e1", "e2"}, {"Public2"}, {"c1"})

SpecMutations == Init /\ [][NextMutations]_vars

\* Enums: they are made by addEnum in the schema and in elements, and by the
\* loader from a text; generate() is called once.
NextEnum ==
    \/ AddEnum(Names, LabelLists, MaxEnumObjects)
    \/ Add({"elementDefs"}, {"A"}, MaxEnumObjects)
    \/ ParseContent(EnumContents)
    \/ Generate(1)

SpecEnum == Init /\ [][NextEnum]_vars

\* Array ranges of the data types of generated attributes
FieldArrayRanges == {<<>>, <<SsRange_repeatedPlus>>}

\* Code generation of the fields of an element: an element is given a child
\* element (itself) and a child attribute, whose data type is of a predefined
\* type, with every combination of nullable, array and nullable array, each
\* with every occurrence; the root element is set, as generate() requires of
\* a schema with elements; then generate() is called once.
NextGenFields ==
    \/ Add({"attributeDefs", "elementDefs"}, {"A"}, MaxFieldObjects)
    \/ NewDataTypeOf(SomePredefinedTypes, BOOLEAN, FieldArrayRanges, MaxFieldObjects)
    \/ SetDataType
    \/ SetUnorderedContent(MaxFieldObjects)
    \/ AddElement({"A"}, Occurrences, MaxFieldObjects)
    \/ AddAttribute({"A"}, Occurrences, MaxFieldObjects)
    \/ SetRootElementByName({"A"})
    \/ Generate(1)

SpecGenFields == Init /\ [][NextGenFields]_vars

\* The loader: schema texts, with and without a defect, are parsed.
NextLoad ==
    \/ ParseContent(LoadableContents \cup DefectiveContents)

SpecLoad == Init /\ [][NextLoad]_vars

\* ------------------------------------------------------------------- claims

\* Every call record of a step of the model API is the record of that step:
\* each action writes last, so in a step that is not a stuttering step
\* last' names the call that made the step.

AnyOptional(values) == \E i \in DOMAIN values : values[i].optional

\* required* optional*: no required value follows an optional one
TrailingOptionalShape(values) ==
    \A i, j \in DOMAIN values : (i < j /\ values[i].optional) => values[j].optional

\* C2: SsStructDef.addValue refuses a required value when an earlier value of
\* the struct is optional, and takes every other value (required values, then
\* optional ones, are accepted in full); so the values of every struct always
\* have the shape required* optional*.
C2_TrailingOptional ==
    /\ [][last'.op = "addValue" =>
            LET before == schema.structDefs[last'.id].values
                after  == schema'.structDefs[last'.id].values
                value  == last'.arg
            IN  IF ~value.optional /\ AnyOptional(before)
                THEN last'.err # "" /\ after = before
                ELSE last'.err = "" /\ after = Append(before, value)]_vars
    /\ [](\A s \in DOMAIN schema.structDefs :
              TrailingOptionalShape(schema.structDefs[s].values))

\* The Point example: a required value was refused by a struct that holds a
\* required value followed by an optional one.
C2_Witness ==
    /\ last.op = "addValue" /\ last.err # "" /\ ~last.arg.optional
    /\ LET values == schema.structDefs[last.id].values
       IN  Len(values) = 2 /\ ~values[1].optional /\ values[2].optional

\* C3: constructing an SsAttributeDataType with a struct, an array range and a
\* struct that has an optional value fails, whatever the flags and the range,
\* and makes no data type.
C3_ArrayOfOptionalStructFails ==
    [][(/\ last'.op = "newDataType"
        /\ last'.arg.structDef # 0
        /\ last'.arg.arrayRange # <<>>
        /\ AnyOptional(schema.structDefs[last'.arg.structDef].values))
       => (last'.err # "" /\ schema'.dataTypes = schema.dataTypes)]_vars

\* An array of a struct with an optional value was refused, with both flags set.
C3_Witness ==
    /\ last.op = "newDataType" /\ last.err = "ArrayOfStructWithOptional"
    /\ last.arg.nullable /\ last.arg.arrayNullable
    /\ last.arg.arrayRange = <<SsRange_repeatedStar>>
    /\ AnyOptional(schema.structDefs[last.arg.structDef].values)

\* C4: constructing an SsAttributeDataType with arrayNullable and no array
\* range fails for every base kind and nullable flag; so every data type that
\* exists has an array range when it is arrayNullable.
C4_ArrayNullableNeedsArray ==
    /\ [][(/\ last'.op = "newDataType"
           /\ last'.arg.arrayNullable
           /\ last'.arg.arrayRange = <<>>)
          => (last'.err # "" /\ schema'.dataTypes = schema.dataTypes)]_vars
    /\ [](\A d \in DOMAIN schema.dataTypes :
              schema.dataTypes[d].arrayNullable => schema.dataTypes[d].arrayRange # <<>>)

\* arrayNullable without an array range was refused for a well-formed base,
\* and a data type that is arrayNullable exists.
C4_Witness ==
    /\ last.op = "newDataType" /\ last.err = "ArrayNullableWithoutArray"
    /\ last.arg.valueTypeDef # 0
    /\ \E d \in DOMAIN schema.dataTypes : schema.dataTypes[d].arrayNullable

\* The scopes from a scope up to the schema, nearest first.
RECURSIVE ScopeChain(_, _)
ScopeChain(S, scope) ==
    IF scope = 0 THEN <<0>> ELSE <<scope>> \o ScopeChain(S, S.elementDefs[scope].parent)

\* The objects a scope's own map of a namespace holds under a name.
LocalItems(S, kind, scope, name) ==
    {item \in DOMAIN Heap(S, kind) :
        /\ Heap(S, kind)[item].name = name
        /\ \E i \in DOMAIN S.definitions[scope + 1][kind] :
               S.definitions[scope + 1][kind][i] = item}

\* C7: add and addExisting ask the local map only.  In each namespace an
\* insertion of a name fails with AlreadyExists exactly when the scope's own
\* map holds the name; otherwise it succeeds (structDefs, attributeDefs and
\* elementDefs by add, valueTypeDefs by addEnum/addExisting), also when an
\* ancestor scope defines the name.  A failed insertion changes nothing.
C7_AddLocalOnly ==
    [][last'.op \in {"add", "addEnum"} =>
          LET local == LocalItems(schema, last'.kind, last'.scope, last'.name) # {}
              byAdd == last'.op = "add" /\ last'.kind = "valueTypeDefs"
          IN  /\ (last'.err = "AlreadyExists") <=> local
              /\ (~local /\ ~byAdd) =>
                     /\ last'.err = ""
                     /\ LocalItems(schema', last'.kind, last'.scope, last'.name)
                            = {last'.ret}
              /\ last'.err # "" => schema' = schema]_vars

\* A name was added to a nested scope while the schema's scope defines it too.
C7_Witness ==
    /\ last.op = "add" /\ last.err = "" /\ last.scope # 0
    /\ LocalItems(schema, last.kind, 0, last.name) # {}
    /\ LocalItems(schema, last.kind, last.scope, last.name) = {last.ret}

\* The positions of a scope's chain whose own map defines the name.
Definers(S, kind, scope, name) ==
    {k \in DOMAIN ScopeChain(S, scope) :
        LocalItems(S, kind, ScopeChain(S, scope)[k], name) # {}}

Nearest(S, kind, scope, name) ==
    ScopeChain(S, scope)[CHOOSE k \in Definers(S, kind, scope, name) :
                             \A m \in Definers(S, kind, scope, name) : k <= m]

\* C8: get(X) from a scope returns the object that the innermost scope of the
\* chain defining X holds, fails with NotDefined exactly when no scope of the
\* chain defines X, and has(X) is true exactly when some scope of the chain
\* defines X.
C8_NearestDefinition ==
    /\ last.op = "get" =>
          IF Definers(schema, last.kind, last.scope, last.name) = {}
          THEN last.err = "NotDefined"
          ELSE /\ last.err = ""
               /\ {last.ret} = LocalItems(schema, last.kind,
                      Nearest(schema, last.kind, last.scope, last.name), last.name)
    /\ last.op = "has" =>
          ((last.ret = 1) <=> Definers(schema, last.kind, last.scope, last.name) # {})

\* get from a nested scope returned the local object although the schema's
\* scope defines the name too.
C8_Witness ==
    /\ last.op = "get" /\ last.err = "" /\ last.scope # 0
    /\ LocalItems(schema, last.kind, last.scope, last.name) = {last.ret}
    /\ LocalItems(schema, last.kind, 0, last.name) # {}
    /\ last.ret \notin LocalItems(schema, last.kind, 0, last.name)

\* C9: SsAttributeDef.dataType is write-once.  An assignment succeeds exactly
\* when the slot is unset and then sets it; a later assignment fails; a set
\* slot never changes; reading the slot fails exactly while it is unset.
C9_DataTypeWriteOnce ==
    /\ [][\A a \in DOMAIN schema.attributeDefs :
              schema.attributeDefs[a].dataType # 0 =>
                  schema'.attributeDefs[a].dataType = schema.attributeDefs[a].dataType]_vars
    /\ [][last'.op = "setDataType" =>
              IF schema.attributeDefs[last'.id].dataType = 0
              THEN last'.err = "" /\ schema'.attributeDefs[last'.id].dataType = last'.arg
              ELSE last'.err = "DataTypeAlreadySet" /\ schema' = schema]_vars
    /\ [](last.op = "getDataType" =>
              ((last.err # "") <=> schema.attributeDefs[last.id].dataType = 0))

\* A second assignment, of another data type, was refused.
C9_Witness ==
    /\ last.op = "setDataType" /\ last.err = "DataTypeAlreadySet"
    /\ schema.attributeDefs[last.id].dataType # 0
    /\ schema.attributeDefs[last.id].dataType # last.arg

\* C10: SsElementDef.content is write-once: once an element has a content, a
\* further setUnorderedContent fails and the content object stays in place.
C10_ContentWriteOnce ==
    [][\A e \in DOMAIN schema.elementDefs :
           schema.elementDefs[e].content # 0 =>
               schema'.elementDefs[e].content = schema.elementDefs[e].content]_vars

\* --------------------------------------------------------------- C5 and C6

\* C5 (as stated): every identifier generateName returns differs from every
\* identifier the same instance returned before, whether or not the returned
\* names were registered with add.
C5_DistinctWithoutAdd == ~allocated.repeated

\* C5 (amended): when every generateName call finds all the names returned
\* before it registered with add, every identifier generateName returns differs
\* from every identifier the same instance returned before.
C5_DistinctWhenRegistered == allocated.paired => ~allocated.repeated

C5_Witness ==
    /\ allocated.paired
    /\ last.op = "generateName" /\ last.err = ""
    /\ Cardinality(allocated.returned) >= 3
    /\ allocated.returned \ {last.str} \subseteq typeLookup.names

\* The base name with only the case of its first letter set.
CaseNormalized(base, startUpperCase) ==
    IF base = "" THEN ""
    ELSE (IF startUpperCase THEN ToUpperCase(SubSeq(base, 1, 1)) ELSE ToLowerCase(SubSeq(base, 1, 1)))
         \o SubSeq(base, 2, Len(base))

\* The case-normalized name made an identifier: "_" goes before a keyword.
Normalized(base, startUpperCase) ==
    LET n == CaseNormalized(base, startUpperCase)
    IN  IF n \in {"public", "internal"} THEN "_" \o n ELSE n

\* The k-th candidate for n: n itself, then n2, n3, ..., n99.
Candidate(n, k) == IF k = 1 THEN n ELSE n \o ToString(k)

\* The outcome that returns the first of the 99 candidates for n not in names,
\* and fails when there is none.
FirstUnusedCandidate(call, n, names) ==
    LET unused == {k \in 1 .. 99 : Candidate(n, k) \notin names}
    IN  IF unused = {} THEN call.err = "TooManyIdenticalNames"
        ELSE /\ call.err = ""
             /\ call.str = Candidate(n, CHOOSE k \in unused : \A j \in unused : k <= j)

\* C6 (as stated): generateName(base) returns the case-normalized base name if
\* unused, otherwise the first unused of base2 .. base99, and fails exactly
\* when all 99 are taken.
C6_CaseNormalizedCandidates ==
    [][last'.op = "generateName" =>
         FirstUnusedCandidate(last', CaseNormalized(last'.name, typeLookup.startUpperCase),
                              typeLookup.names)]_vars

\* C6 (amended): generateName of the empty name fails; for a non-empty base,
\* with n the base name with the case of its first letter set and "_" put
\* before it when that is a keyword, generateName returns n if unused,
\* otherwise the first unused of n2 .. n99, and fails exactly when all 99 are
\* taken.  Where every registered name was returned by generateName for a base
\* of the same n and registered before the next call, the call fails exactly
\* when 99 names are registered: the first 99 allocations succeed, the 100th
\* fails.
C6_CandidateOrder ==
    [][last'.op = "generateName" =>
         LET base == last'.name
             n    == Normalized(base, typeLookup.startUpperCase)
         IN  /\ base = "" => last'.err = "InvalidName"
             /\ base # "" => FirstUnusedCandidate(last', n, typeLookup.names)
             /\ ( /\ base # ""
                  /\ allocated'.paired
                  /\ typeLookup.names \subseteq allocated.returned
                  /\ \A b \in BaseNames \ {""} :
                        Normalized(b, typeLookup.startUpperCase) = n )
                => (last'.err = "" <=> Cardinality(typeLookup.names) < 99)]_vars

C6_Witness ==
    /\ last.op = "generateName"
    /\ last.err = "TooManyIdenticalNames"
    /\ allocated.paired
    /\ typeLookup.names = allocated.returned
    /\ Cardinality(typeLookup.names) = 99

\* ----------------------------------------------------------------------- C1

\* The names of the elements that lead from the schema to a scope.
RECURSIVE ScopePath(_, _)
ScopePath(S, scope) ==
    IF scope = 0 THEN <<>>
    ELSE Append(ScopePath(S, ParentOf(S, scope)), S.elementDefs[scope].name)

\* The scope whose local map holds an item.
ScopeOf(S, kind, item) ==
    CHOOSE scope \in Scopes(S) :
        \E i \in DOMAIN Map(S, kind, scope) : Map(S, kind, scope)[i] = item

\* A definition as seen from outside: its name and where it is defined.
Reference(S, kind, item) ==
    [name |-> Heap(S, kind)[item].name, definedIn |-> ScopePath(S, ScopeOf(S, kind, item))]

OptionalReference(S, kind, item) ==
    IF item = 0 THEN <<>> ELSE <<Reference(S, kind, item)>>

StructValueView(S, value) ==
    [name |-> value.name, optional |-> value.optional,
     predefinedType |-> value.predefinedType,
     valueTypeDef |-> OptionalReference(S, "valueTypeDefs", value.valueTypeDef),
     nullable |-> value.nullable]

DataTypeView(S, dataType) ==
    IF dataType = 0 THEN <<>>
    ELSE LET dt == S.dataTypes[dataType]
         IN  <<[predefinedType |-> dt.predefinedType,
                valueTypeDef |-> OptionalReference(S, "valueTypeDefs", dt.valueTypeDef),
                structDef |-> OptionalReference(S, "structDefs", dt.structDef),
                nullable |-> dt.nullable, arrayRange |-> dt.arrayRange,
                arrayNullable |-> dt.arrayNullable]>>

ContentView(S, content) ==
    IF content = 0 THEN <<>>
    ELSE LET c == S.contents[content]
         IN  <<[elements |->
                    [i \in DOMAIN c.elements |->
                        [elementDef |-> Reference(S, "elementDefs", c.elements[i].elementDef),
                         occurrence |-> c.elements[i].occurrence]],
                attributes |->
                    [i \in DOMAIN c.attributes |->
                        [name |-> c.attributes[i].name,
                         inline |-> c.attributes[i].inline,
                         occurrence |-> c.attributes[i].occurrence,
                         attributeDef |->
                             IF c.attributes[i].inline THEN <<>>
                             ELSE <<Reference(S, "attributeDefs", c.attributes[i].attributeDef)>>,
                         dataType |->
                             IF c.attributes[i].inline
                             THEN DataTypeView(S, S.attributeDefs[c.attributes[i].attributeDef].dataType)
                             ELSE <<>>]]]>>

\* The entities of a scope, their field values and the scopes nested in it,
\* each list in declaration order.
RECURSIVE DefinitionsView(_, _)
DefinitionsView(S, scope) ==
    LET v == Map(S, "valueTypeDefs", scope)
        st == Map(S, "structDefs", scope)
        a == Map(S, "attributeDefs", scope)
        e == Map(S, "elementDefs", scope)
    IN  [valueTypeDefs |-> [i \in DOMAIN v |-> S.valueTypeDefs[v[i]]],
         structDefs |->
             [i \in DOMAIN st |->
                 [name |-> S.structDefs[st[i]].name,
                  values |-> [j \in DOMAIN S.structDefs[st[i]].values |->
                                 StructValueView(S, S.structDefs[st[i]].values[j])]]],
         attributeDefs |->
             [i \in DOMAIN a |->
                 [name |-> S.attributeDefs[a[i]].name,
                  dataType |-> DataTypeView(S, S.attributeDefs[a[i]].dataType)]],
         elementDefs |->
             [i \in DOMAIN e |->
                 [name |-> S.elementDefs[e[i]].name,
                  definitions |-> DefinitionsView(S, e[i]),
                  content |-> ContentView(S, S.elementDefs[e[i]].content)]]]

\* The name of the root element, <<>> when there is none.
RootElementView(S) ==
    IF S.rootElement \in {0, undefined} THEN <<>> ELSE <<S.elementDefs[S.rootElement].name>>

\* C1: whenever the loader has been given the node tree serialize() made of
\* the schema, it returned a schema, and that schema has the same entities,
\* field values and scope nesting as the serialized one; the root elements
\* are compared when RootElement was written, which is when the schema has
\* more than one top-level element.
C1_RoundTrip ==
    loaded # <<>> =>
        /\ loaded.returned
        /\ DefinitionsView(loaded.schema, 0) = DefinitionsView(schema, 0)
        /\ Len(Map(schema, "elementDefs", 0)) > 1 =>
               RootElementView(loaded.schema) = RootElementView(schema)

\* ---------------------------------------------------------------------- C11

NamedConstructors == {"required", "optional", "repeatedPlus", "repeatedStar", "fixed"}

\* The derived predicates that hold of a range.
Holding(r) ==
    {p \in {"isRequired", "isOptional", "isRepeatedPlus", "isRepeatedStar", "isFixed"} :
        CASE p = "isRequired"     -> SsRange_isRequired(r)
          [] p = "isOptional"     -> SsRange_isOptional(r)
          [] p = "isRepeatedPlus" -> SsRange_isRepeatedPlus(r)
          [] p = "isRepeatedStar" -> SsRange_isRepeatedStar(r)
          [] p = "isFixed"        -> SsRange_isFixed(r)}

\* C11 (as stated): exactly one of the five derived predicates holds of every
\* range a named constructor makes.
C11_ExactlyOnePredicate ==
    last.op \in NamedConstructors => Cardinality(Holding(last.arg)) = 1

\* C11 (amended): a named constructor never fails; optional(), repeatedPlus(),
\* repeatedStar() and fixed(n) for n # 1 make a range of which exactly one of
\* the five derived predicates holds, the one of the constructor's name;
\* required() and fixed(1) make the same range (1, 1), of which exactly
\* isRequired and isFixed hold.
C11_OnePredicateButOneOne ==
    last.op \in NamedConstructors =>
        /\ last.err = ""
        /\ Holding(last.arg) =
              CASE last.op = "required"     -> {"isRequired", "isFixed"}
                [] last.op = "optional"     -> {"isOptional"}
                [] last.op = "repeatedPlus" -> {"isRepeatedPlus"}
                [] last.op = "repeatedStar" -> {"isRepeatedStar"}
                [] last.op = "fixed"        ->
                     IF last.arg = [min |-> 1, max |-> 1] THEN {"isRequired", "isFixed"}
                     ELSE {"isFixed"}

\* fixed(1) has made the range required() makes.
C11_Witness ==
    /\ last.op = "fixed" /\ last.arg = SsRange_required
    /\ Holding(last.arg) = {"isRequired", "isFixed"}

\* ---------------------------------------------------------------------- C19

\* C19: in every state the model API can reach by structDefs.add, addValue,
\* the construction of data types and the assignment of dataType, every
\* SsAttributeDataType that has a struct and an array range refers to a struct
\* without an optional value, also when values were added to the struct after
\* the data type was made.
C19_ArrayOfStructNeverOptional ==
    \A d \in DOMAIN schema.dataTypes :
        (schema.dataTypes[d].structDef # 0 /\ schema.dataTypes[d].arrayRange # <<>>)
            => ~AnyOptional(schema.structDefs[schema.dataTypes[d].structDef].values)

\* ---------------------------------------------------------------------- C17

\* C17: the associations of a TsLookup are write-once.  An add for a source
\* that is registered fails, and the name and the construct a source is
\* registered with never change.
C17_AssociationsWriteOnce ==
    /\ [][(last'.op = "lookupAdd" /\ last'.arg[1] \in DOMAIN typeLookup.nameLookup)
             => (last'.err # "" /\ typeLookup' = typeLookup)]_vars
    /\ [][\A source \in DOMAIN typeLookup.nameLookup :
             /\ source \in DOMAIN typeLookup'.nameLookup
             /\ typeLookup'.nameLookup[source] = typeLookup.nameLookup[source]
             /\ typeLookup'.lookup[source] = typeLookup.lookup[source]]_vars

\* ---------------------------------------------------------------------- C14

\* The RootElement attributes of the serialized document.
WrittenRootElement == SmlElement_attributes(document.root, "RootElement")

\* The default-root rule of the loader, applied to the top-level element
\* definitions of the serialized schema, selects the schema's root element.
DefaultRuleSelectsRoot ==
    LET rule == SmlSchema_setRootElementDefault(schema)
    IN  rule.err = "" /\ rule.s.rootElement = schema.rootElement

C14_WitnessWritten ==
    /\ document # <<>> /\ document.err = ""
    /\ WrittenRootElement # <<>>
    /\ Len(Map(schema, "elementDefs", 0)) = 2

\* ---------------------------------------------------------------------- C12

\* The name of the root element of a loaded schema, when it is one of the
\* schema's top-level element definitions; <<>> otherwise.
LoadedRootElement ==
    LET S == loaded.schema
    IN  IF \E i \in DOMAIN Map(S, "elementDefs", 0) :
               Map(S, "elementDefs", 0)[i] = S.rootElement
        THEN <<S.elementDefs[S.rootElement].name>> ELSE <<>>

\* C12: at the end of a load, a RootElement that is given makes the top-level
\* element of that name the root, and the load fails when there is none; with
\* RootElement left out the load succeeds with the sole top-level element as
\* root, and fails with more than one and with no top-level element.  After a
\* load that succeeded the root element is a top-level element.
C12_RootResolution ==
    (last.op = "parse" /\ last.arg \in LoadableContents) =>
        LET top   == TopElementNames(last.arg.root)
            given == GivenRootElement(last.arg.root)
        IN  /\ IF given # <<>>
               THEN IF \E i \in DOMAIN top : top[i] = given[1]
                    THEN loaded.returned /\ LoadedRootElement = given
                    ELSE ~loaded.returned
               ELSE IF Len(top) = 1
                    THEN loaded.returned /\ LoadedRootElement = top
                    ELSE ~loaded.returned
            /\ loaded.returned => LoadedRootElement # <<>>

\* ---------------------------------------------------------------------- C13

\* The definition nodes of a Schema or Definitions node and of the elements
\* in it.
RECURSIVE CountDefinitionNodes(_, _)
CountDefinitionNodes(children, i) ==
    IF i > Len(children) THEN 0
    ELSE (IF children[i].name = "Definitions"
          THEN CountDefinitionNodes(children[i].elements, 1)
          ELSE IF children[i].name = "Element"
          THEN 1 + CountDefinitionNodes(children[i].elements, 1)
          ELSE IF children[i].name \in {"EnumType", "Struct", "Attribute"} THEN 1
          ELSE 0)
         + CountDefinitionNodes(children, i + 1)

\* The definitions the lists of the scopes of a schema hold.
RECURSIVE CountDefinitions(_, _)
CountDefinitions(S, scope) ==
    IF scope > Len(S.elementDefs) THEN 0
    ELSE Len(Map(S, "valueTypeDefs", scope)) + Len(Map(S, "structDefs", scope))
         + Len(Map(S, "attributeDefs", scope)) + Len(Map(S, "elementDefs", scope))
         + CountDefinitions(S, scope + 1)

\* C13: a load is all or nothing.  parse either returns a schema or raises
\* one error, CouldNotParseSchema, that wraps the cause; a text with a defect
\* (not a document, against the grammar, a duplicate definition, an undefined
\* reference, an invalid range or type combination, a root element that does
\* not resolve) is never answered with a schema; a text that is a schema is;
\* and a schema that is returned for a text with a top-level element holds
\* every definition of the text and its root element.
C13_AllOrNothing ==
    last.op = "parse" =>
        /\ loaded.returned <=> loaded.err = ""
        /\ loaded.returned <=> loaded.cause = ""
        /\ ~loaded.returned => loaded.err = "CouldNotParseSchema"
        /\ last.err = loaded.err
        /\ last.arg \in DefectiveContents => ~loaded.returned
        /\ last.arg \in ValidContents => loaded.returned
        /\ (loaded.returned /\ TopElementNames(last.arg.root) # <<>>) =>
              /\ CountDefinitions(loaded.schema, 0)
                    = CountDefinitionNodes(last.arg.root.elements, 1)
              /\ LoadedRootElement # <<>>

\* A text whose only defect is the last thing the loader looks at, a root
\* element that is not defined, was refused after all its definitions loaded.
C13_Witness ==
    /\ last.op = "parse" /\ ~loaded.returned
    /\ loaded.err = "CouldNotParseSchema" /\ loaded.cause = "NotDefined"
    /\ GivenRootElement(last.arg.root) = <<"Zed">>
    /\ CountDefinitions(loaded.schema, 0) = 5

\* ---------------------------------------------------------------------- C15

\* The base of a data type is what a name resolves to from a scope.
SameBase(dt, base) ==
    /\ base.err = ""
    /\ base.predefinedType = dt.predefinedType
    /\ base.valueTypeDef = dt.valueTypeDef
    /\ base.structDef = dt.structDef

\* The name toString() writes for the base of a data type: the name of its
\* predefined type, value type or struct.
BaseName(S, dt) ==
    IF dt.predefinedType # NoPredefinedType THEN dt.predefinedType
    ELSE IF dt.valueTypeDef # 0 THEN S.valueTypeDefs[dt.valueTypeDef].name
    ELSE S.structDefs[dt.structDef].name

\* C15: the text of a data type reads back.  toString() of a data type (a
\* predefined type, a value type or a struct as base, nullable or not, with
\* any array range or none) returns a text, and loadDataType of that text
\* from a scope where the base name resolves to the same entity succeeds with
\* a data type of the same base, nullable flag, array range and
\* arrayNullable flag.
C15_TextRoundTrip ==
    /\ last.op = "toString" => last.err = ""
    /\ (/\ last.op = "loadDataType" /\ last.id # 0
        /\ SameBase(schema.dataTypes[last.id],
                    ResolveBase(schema, BaseName(schema, schema.dataTypes[last.id]),
                                last.scope)))
          => /\ last.err = ""
             /\ last.arg = schema.dataTypes[last.id]

\* ---------------------------------------------------------------------- C20

\* The predefined types whose name is a name but for the case of letters.
PredefinedNamed(name) ==
    {p \in SsPredefinedType : StringToLowerCase(p) = StringToLowerCase(name)}

\* The suffixes of the text of a loadDataType were taken: what is left is
\* the name of the base.
SuffixesRead(text) ==
    /\ SplitDataType(text).err = ""
    /\ SplitDataType(text).arrayBoundsStr # <<>> =>
           LoadArrayBounds(SplitDataType(text).arrayBoundsStr[1]).err = ""

\* C20: the name left of a data type text resolves to the predefined type
\* whose name it is but for case; otherwise to the nearest value type of the
\* name on the scope chain; otherwise to the nearest struct of the name;
\* otherwise loadDataType fails with NotDefined.  A data type that is
\* returned has exactly one base kind, and neither a value type nor a struct
\* when the name is a predefined name.
C20_ResolutionOrder ==
    (last.op = "loadDataType" /\ SuffixesRead(last.str)) =>
        LET name == SplitDataType(last.str).name
            dt   == last.arg
        IN  /\ IF PredefinedNamed(name) # {}
               THEN /\ last.err # "NotDefined"
                    /\ last.err = "" =>
                          /\ {dt.predefinedType} = PredefinedNamed(name)
                          /\ dt.valueTypeDef = 0 /\ dt.structDef = 0
               ELSE IF Definers(schema, "valueTypeDefs", last.scope, name) # {}
               THEN /\ last.err # "NotDefined"
                    /\ last.err = "" =>
                          /\ LocalItems(schema, "valueTypeDefs",
                                  Nearest(schema, "valueTypeDefs", last.scope, name),
                                  name) = {dt.valueTypeDef}
                          /\ dt.predefinedType = NoPredefinedType /\ dt.structDef = 0
               ELSE IF Definers(schema, "structDefs", last.scope, name) # {}
               THEN /\ last.err # "NotDefined"
                    /\ last.err = "" =>
                          /\ LocalItems(schema, "structDefs",
                                  Nearest(schema, "structDefs", last.scope, name),
                                  name) = {dt.structDef}
                          /\ dt.predefinedType = NoPredefinedType /\ dt.valueTypeDef = 0
               ELSE last.err = "NotDefined"
            /\ last.err = "" =>
                  Cardinality({k \in {"predefinedType", "valueTypeDef", "structDef"} :
                      dt[k] # (IF k = "predefinedType" THEN NoPredefinedType ELSE 0)}) = 1

\* "int" was read from the scope of an element while the schema defines a
\* value type named Int: the predefined type was selected.
C20_Witness ==
    /\ last.op = "loadDataType" /\ last.err = "" /\ last.str = "int"
    /\ last.scope # 0
    /\ LocalItems(schema, "valueTypeDefs", 0, "Int") # {}
    /\ last.arg.predefinedType = "Int" /\ last.arg.valueTypeDef = 0

\* "A" was read where the schema defines a struct A and the element's own
\* scope a value type A: the value type was selected.
C20_WitnessValueType ==
    /\ last.op = "loadDataType" /\ last.err = "" /\ last.str = "A"
    /\ last.scope # 0
    /\ LocalItems(schema, "structDefs", 0, "A") # {}
    /\ LocalItems(schema, "valueTypeDefs", last.scope, "A") = {last.arg.valueTypeDef}

\* ---------------------------------------------------------------------- C16

\* C16: generate() looks an entity up in typeLookup only after it has added
\* it: no generate() of a schema of enums, structs and elements, whose
\* elements have other elements as children, fails with "Does not contain
\* source".
C16_LookupAfterAdd ==
    last.op = "generate" => last.err # "DoesNotContainSource"

\* ---------------------------------------------------------------------- C18

\* C18: the calls of generate() for a schema are independent.  Every call,
\* on the same SmlSchemaCodeGen and on a new one, ends as the first call for
\* the schema did: with the same error, or returning the same text.
C18_GenerateIndependent ==
    \A i, j \in DOMAIN codeGen.generated :
        /\ codeGen.generated[i].err = codeGen.generated[j].err
        /\ codeGen.generated[i].text = codeGen.generated[j].text

\* ---------------------------------------------------------------------- C21

\* The first generate() of a generator has just returned its text.
FirstGenerated ==
    last.op = "generate" /\ last.err = "" /\ Len(codeGen.generated) = 1

\* The class or enum generate() declared for a definition of the schema
GeneratedType(kind, item) ==
    codeGen.document.types[TsLookup_get(typeLookup, <<kind, item>>).ret]

\* The canonical zero of the type of a struct value: false, 0, 0.0, the empty
\* string, or the first variant of the enum generated for its value type
CanonicalZero(value) ==
    CASE value.predefinedType = "Bool"   -> "false"
      [] value.predefinedType \in {"Int", "UInt"} -> "0"
      [] value.predefinedType = "Number" -> "0.0"
      [] value.predefinedType = "String" -> "\"\""
      [] OTHER ->
           TsLookup_getName(typeLookup, <<"valueTypeDefs", value.valueTypeDef>>).ret
           \o "." \o TsUtil_getIdentifier(
                         schema.valueTypeDefs[value.valueTypeDef].values[1], TRUE)

\* C21: in the class generated for a struct, the field of every value that is
\* not nullable has the canonical zero of its type as default, and the field
\* of every nullable value has a nullable type and the default null.
C21_StructFieldDefaults ==
    FirstGenerated =>
        \A structDef \in DOMAIN schema.structDefs :
            \A i \in DOMAIN schema.structDefs[structDef].values :
                LET value == schema.structDefs[structDef].values[i]
                    field == GeneratedType("structDefs", structDef).properties[i]
                IN  IF value.nullable
                    THEN EndsWith(field, " | null = null")
                    ELSE EndsWith(field, " = " \o CanonicalZero(value))

\* ---------------------------------------------------------------------- C22

\* The parts of a generated field "name: type = default"
FieldName(field)    == Substring(field, 0, IndexOf(field, ": "))
FieldType(field)    == Substring(field, IndexOf(field, ": ") + 2, IndexOf(field, " = "))
FieldDefault(field) == Substring(field, IndexOf(field, " = ") + 3, Len(field))

\* The type of one item of a data type, without its nullability
ElementalTypeName(dataType) ==
    IF dataType.predefinedType # NoPredefinedType
    THEN SmlSchemaCodeGen_getPredefinedTypeString(dataType.predefinedType).ret
    ELSE TsLookup_getName(typeLookup,
             IF dataType.valueTypeDef # 0
             THEN <<"valueTypeDefs", dataType.valueTypeDef>>
             ELSE <<"structDefs", dataType.structDef>>).ret

\* The type a data type has by itself: the item type, nullable when the base
\* is; an array of it when there is an array range, nullable when the array is
OwnTypeName(dataType) ==
    LET elemental == ElementalTypeName(dataType)
        item      == IF dataType.nullable THEN elemental \o " | null" ELSE elemental
    IN  IF SsAttributeDataType_isArray(dataType)
        THEN (IF dataType.nullable THEN "(" \o item \o ")" ELSE item) \o "[]"
             \o (IF dataType.arrayNullable THEN " | null" ELSE "")
        ELSE item

\* A type without the null it admits at the outermost level, if it admits it
WithoutNull(typeName) ==
    IF EndsWith(typeName, " | null")
    THEN Substring(typeName, 0, Len(typeName) - Len(" | null"))
    ELSE typeName

\* The shape of the field of an entry of the given name and occurrence, whose
\* definition has the type ownType by itself
FieldShape(field, name, ownType, occurrence) ==
    IF SsRange_isRequired(occurrence)
    THEN /\ FieldName(field) = TsUtil_getIdentifier(name, FALSE)
         /\ FieldType(field) = ownType
    ELSE IF SsRange_isOptional(occurrence)
    THEN /\ FieldName(field) = TsUtil_getIdentifier(name, FALSE)
         /\ FieldType(field) = WithoutNull(ownType) \o " | null"
         /\ ~EndsWith(WithoutNull(ownType), " | null")
         /\ FieldDefault(field) = "null"
    ELSE /\ FieldName(field) = TsUtil_getIdentifier(name \o "List", FALSE)
         /\ EndsWith(FieldName(field), "List")
         /\ FieldType(field) = "(" \o ownType \o ")[]"
         /\ FieldDefault(field) = "[]"

\* C22: in the class generated for an element, the field of a required entry
\* is plain (the name of the entry, the type of its definition), the field of
\* an optional entry has that type with null admitted exactly once at the
\* outermost level and the default null, and the field of a repeated entry is
\* named with the suffix List, is a collection of that type and defaults to
\* the empty collection; for child elements and for child attributes of every
\* combination of nullable base, array and nullable array.
C22_FieldShapeByOccurrence ==
    FirstGenerated =>
        \A elementDef \in DOMAIN schema.elementDefs :
            schema.elementDefs[elementDef].content # 0 =>
                LET content    == schema.contents[schema.elementDefs[elementDef].content]
                    properties == GeneratedType("elementDefs", elementDef).properties
                IN  /\ \A i \in DOMAIN content.elements :
                          FieldShape(properties[i],
                              schema.elementDefs[content.elements[i].elementDef].name,
                              TsLookup_getName(typeLookup,
                                  <<"elementDefs", content.elements[i].elementDef>>).ret,
                              content.elements[i].occurrence)
                    /\ \A j \in DOMAIN content.attributes :
                          FieldShape(properties[Len(content.elements) + j],
                              schema.attributeDefs[content.attributes[j].attributeDef].name,
                              OwnTypeName(schema.dataTypes[
                                  schema.attributeDefs[
                                      content.attributes[j].attributeDef].dataType]),
                              content.attributes[j].occurrence)

\* generate() has returned the class of an element with a repeated child
\* element and an optional child attribute that is a nullable array of
\* nullable items.
C22_Witness ==
    /\ FirstGenerated
    /\ \E elementDef \in DOMAIN schema.elementDefs :
          /\ schema.elementDefs[elementDef].content # 0
          /\ \E i \in DOMAIN schema.contents[schema.elementDefs[elementDef].content].elements :
                SsRange_isRepeatedStar(
                    schema.contents[schema.elementDefs[elementDef].content]
                        .elements[i].occurrence)
          /\ \E j \in DOMAIN schema.contents[schema.elementDefs[elementDef].content].attributes :
                LET entry    == schema.contents[schema.elementDefs[elementDef].content]
                                    .attributes[j]
                    dataType == schema.dataTypes[
                                    schema.attributeDefs[entry.attributeDef].dataType]
                IN  /\ SsRange_isOptional(entry.occurrence)
                    /\ dataType.nullable
                    /\ SsAttributeDataType_isArray(dataType)
                    /\ dataType.arrayNullable

\* ---------------------------------------------------------------------- C23

\* C23: the load operation generated for an element takes the occurrences of
\* a repeated child element from the child elements of the node: no loop
\* over sCurElement iterates the attributes of the node.
C23_RepeatedElementsAreElements ==
    FirstGenerated =>
        \A i \in DOMAIN codeGen.generated[1].text :
            Includes(codeGen.generated[1].text[i], "for (let sCurElement of ") =>
                /\ ~Includes(codeGen.generated[1].text[i], "sElement.attributes(")
                /\ ~Includes(codeGen.generated[1].text[i], "sElement.oneOrMoreAttributes(")

\* ---------------------------------------------------------------------- C24

DistinctLabels(values) ==
    \A i, j \in DOMAIN values : i # j => values[i] # values[j]

\* C24: every enum of a schema, made by addEnum or loaded from an EnumType
\* node, holds pairwise distinct labels, and so does every enumerated type
\* generate() declares.
C24_EnumLabelsDistinct ==
    /\ \A v \in DOMAIN schema.valueTypeDefs :
          DistinctLabels(schema.valueTypeDefs[v].values)
    /\ (loaded # <<>> /\ loaded.returned) =>
          \A v \in DOMAIN loaded.schema.valueTypeDefs :
              DistinctLabels(loaded.schema.valueTypeDefs[v].values)
    /\ \A t \in DOMAIN codeGen.document.types :
          DistinctLabels(codeGen.document.types[t].values)

\* ---------------------------------------------------------------------- C25

\* The calls that change a schema or an allocator
Mutators ==
    {"add", "addEnum", "addValue", "setDataType", "addElement", "addAttribute",
     "addInlineAttribute", "setRootElementByName", "lookupAdd"}

\* C25: a call of add, addExisting (by addEnum), addValue, the dataType
\* setter, addElement, addAttribute, addInlineAttribute, setRootElementByName
\* or TsLookup.add that raises an error leaves the schema (namespace maps,
\* struct values, data type slots, content entries, root element) and the
\* allocator tables as they were before the call.
C25_FailedMutationsChangeNothing ==
    [][(last'.op \in Mutators /\ last'.err # "") =>
           (schema' = schema /\ typeLookup' = typeLookup)]_vars

\* addValue has just refused a required value after an optional one, on a
\* struct that keeps its values.
C25_Witness ==
    /\ last.op = "addValue"
    /\ last.err = "NotOptionalAfterOptional"
    /\ schema.structDefs[last.id].values # <<>>
    /\ \A i \in DOMAIN schema.structDefs[last.id].values :
          schema.structDefs[last.id].values[i].optional

\* ---------------------------------------------------------------------- C26

\* The number of tabs a line starts with, and the line after them
RECURSIVE LeadingTabs(_)
LeadingTabs(line) ==
    IF Len(line) > 0 /\ SubSeq(line, 1, 1) = "\t"
    THEN 1 + LeadingTabs(SubSeq(line, 2, Len(line)))
    ELSE 0

Unindented(line) == SubSeq(line, LeadingTabs(line) + 1, Len(line))

\* The blocks open where the i-th line of a text stands: those the lines
\* before it opened, less those the lines up to it closed
BlocksOpen(text, i) ==
    Cardinality({j \in 1 .. i - 1 : EndsWith(text[j], "{")})
    - Cardinality({j \in (1 .. i) \cap DOMAIN text : Len(Unindented(text[j])) > 0
                       /\ SubSeq(Unindented(text[j]), 1, 1) = "}"})

\* indentationLevel and firstLineStack agree, and the text is indented by
\* its blocks
WellNested(builder) ==
    /\ builder.indentationLevel >= 0
    /\ Len(builder.firstLineStack) = builder.indentationLevel + 1
    /\ \A i \in DOMAIN builder.text :
          LeadingTabs(builder.text[i]) = BlocksOpen(builder.text, i)
    /\ builder.indentationLevel = BlocksOpen(builder.text, Len(builder.text) + 1)

\* C26: after any calls of appendLine, appendLines, open, close and
\* closeAndOpen, indentationLevel is at least 0, firstLineStack has
\* indentationLevel + 1 entries and every line of the text is indented by the
\* number of blocks open where it was appended; close and closeAndOpen fail
\* at indentation level 0, and only there, without changing the builder.
C26_BlockNesting ==
    /\ [](WellNested(stringBuilder))
    /\ [][last'.op \in {"close", "closeAndOpen"} =>
             IF stringBuilder.indentationLevel = 0
             THEN last'.err # "" /\ stringBuilder' = stringBuilder
             ELSE last'.err = ""]_vars

\* A block in a block was opened, a line written in it, and both were
\* closed; then a close was refused.
C26_Witness ==
    /\ last.op = "close" /\ last.err # ""
    /\ \E i \in DOMAIN stringBuilder.text :
          /\ LeadingTabs(stringBuilder.text[i]) = 2
          /\ Unindented(stringBuilder.text[i]) = "a"
    /\ stringBuilder.indentationLevel = 0

====
